---- MODULE Spec2Model ----
(***************************************************************************)
(* Emission estimation engine of greenfork-backend                         *)
(* (src/src/services/emissionService.js, second half of the file).         *)
(*                                                                         *)
(* Numbers.  JavaScript doubles are modelled in fixed point:               *)
(*   food emission factors      tenths of kg CO2e per kg   (6.0  -> 60)    *)
(*   ingredient amounts         grams                                      *)
(*   food emissions             1e-4 kg CO2e  (grams * factor tenths)      *)
(*   packaging factors          1e-2 kg CO2e per unit       (0.2 -> 20)    *)
(*   travel factors             1e-3 kg CO2e per km       (0.115 -> 115)   *)
(*   distances                  metres                     (5 km -> 5000)  *)
(*   packaging, travel, total   1e-6 kg CO2e                               *)
(*   toFixed(2) results         1e-2 (hundredths), toFixed(1) tenths       *)
(* A JavaScript value that can be undefined or NaN is a record             *)
(* [t |-> "number" | "undefined" | "NaN" | "null", v |-> Int].             *)
(***************************************************************************)
EXTENDS Integers, Sequences, FiniteSets, TLC


(***************************************************************************)
(* Static tables                                                           *)
(***************************************************************************)

\* kg CO2e per kg of food, in tenths
FOOD_EMISSIONS_DB ==
  ("beef" :> 600) @@ ("lamb" :> 240) @@ ("mutton" :> 240) @@
  ("pork" :> 70) @@ ("bacon" :> 72) @@ ("ham" :> 68) @@ ("chicken" :> 60) @@
  ("turkey" :> 55) @@ ("duck" :> 98) @@ ("eggs" :> 48) @@ ("fish" :> 51) @@
  ("salmon" :> 60) @@ ("tuna" :> 61) @@ ("shrimp" :> 120) @@
  ("prawns" :> 120) @@ ("cheese" :> 135) @@ ("paneer" :> 130) @@
  ("milk" :> 32) @@ ("butter" :> 120) @@ ("cream" :> 90) @@
  ("yogurt" :> 25) @@ ("ghee" :> 125) @@ ("cream cheese" :> 118) @@
  ("lentils" :> 9) @@ ("tofu" :> 20) @@ ("beans" :> 11) @@
  ("chickpeas" :> 9) @@ ("soybeans" :> 10) @@ ("tempeh" :> 22) @@
  ("seitan" :> 12) @@ ("plant-based meat" :> 35) @@ ("wheat" :> 16) @@
  ("rice" :> 40) @@ ("oats" :> 14) @@ ("barley" :> 10) @@ ("corn" :> 11) @@
  ("quinoa" :> 13) @@ ("bread" :> 17) @@ ("pasta" :> 15) @@
  ("flour" :> 16) @@ ("vegetables" :> 15) @@ ("potatoes" :> 5) @@
  ("tomatoes" :> 11) @@ ("onions" :> 5) @@ ("garlic" :> 6) @@
  ("bell pepper" :> 10) @@ ("tomato puree" :> 18) @@ ("carrots" :> 4) @@
  ("broccoli" :> 6) @@ ("spinach" :> 5) @@ ("lettuce" :> 7) @@
  ("kale" :> 5) @@ ("cabbage" :> 4) @@ ("cucumber" :> 6) @@
  ("eggplant" :> 7) @@ ("mushrooms" :> 6) @@ ("fruits" :> 10) @@
  ("apples" :> 4) @@ ("bananas" :> 8) @@ ("oranges" :> 4) @@
  ("berries" :> 11) @@ ("grapes" :> 10) @@ ("mangoes" :> 12) @@
  ("oil" :> 33) @@ ("olive oil" :> 51) @@ ("coconut oil" :> 23) @@
  ("nuts" :> 25) @@ ("almonds" :> 35) @@ ("walnuts" :> 23) @@
  ("cashews" :> 22) @@ ("seeds" :> 18) @@ ("spices" :> 15) @@
  ("sugar" :> 19) @@ ("salt" :> 3) @@ ("pepper" :> 11) @@ ("vinegar" :> 9) @@
  ("tomato ketchup" :> 21) @@ ("mayonnaise" :> 45) @@ ("coffee" :> 170) @@
  ("tea" :> 20) @@ ("beer" :> 11) @@ ("wine" :> 18) @@ ("soft drink" :> 5)

\* alias -> canonical ingredient name
INGREDIENT_NORMALIZATION ==
  ("garbanzo beans" :> "chickpeas") @@ ("chana" :> "chickpeas") @@
  ("chick peas" :> "chickpeas") @@ ("gram" :> "chickpeas") @@
  ("dahl" :> "lentils") @@ ("dal" :> "lentils") @@ ("moong" :> "lentils") @@
  ("masoor" :> "lentils") @@ ("gram flour" :> "flour") @@
  ("besan" :> "flour") @@ ("maida" :> "flour") @@ ("atta" :> "flour") @@
  ("naan" :> "bread") @@ ("chapati" :> "bread") @@ ("roti" :> "bread") @@
  ("paratha" :> "bread") @@ ("chicken breast" :> "chicken") @@
  ("chicken thigh" :> "chicken") @@ ("lamb chop" :> "lamb") @@
  ("ground beef" :> "beef") @@ ("minced beef" :> "beef") @@
  ("steak" :> "beef") @@ ("mutton" :> "lamb") @@ ("egg" :> "eggs") @@
  ("capsicum" :> "bell pepper") @@ ("pepper" :> "bell pepper") @@
  ("tomato" :> "tomatoes") @@ ("onion" :> "onions") @@
  ("potato" :> "potatoes") @@ ("mushroom" :> "mushrooms") @@
  ("eggplant" :> "eggplant") @@ ("aubergine" :> "eggplant") @@
  ("brinjal" :> "eggplant") @@ ("cream cheese" :> "cheese") @@
  ("cheddar" :> "cheese") @@ ("mozzarella" :> "cheese") @@
  ("parmesan" :> "cheese") @@ ("feta" :> "cheese") @@
  ("cottage cheese" :> "paneer") @@ ("creamer" :> "cream") @@
  ("yoghurt" :> "yogurt") @@ ("curd" :> "yogurt") @@
  ("refined oil" :> "oil") @@ ("cooking oil" :> "oil") @@
  ("vegetable oil" :> "oil") @@ ("canola oil" :> "oil") @@
  ("sunflower oil" :> "oil") @@ ("margarine" :> "butter") @@
  ("ketchup" :> "tomato ketchup") @@ ("soy sauce" :> "spices") @@
  ("hot sauce" :> "spices") @@ ("chilli sauce" :> "spices") @@
  ("masala" :> "spices") @@ ("garam masala" :> "spices")

\* category -> kg CO2e per kg, in tenths
INGREDIENT_CATEGORY_FALLBACK ==
  ("meat" :> 300) @@ ("seafood" :> 60) @@ ("dairy" :> 100) @@
  ("vegetables" :> 10) @@ ("fruits" :> 10) @@ ("grains" :> 16) @@
  ("spices" :> 15) @@ ("pulses" :> 9) @@ ("oil" :> 33) @@ ("nuts" :> 25) @@
  ("beverages" :> 15) @@ ("processed" :> 40)

\* packaging type -> size -> kg CO2e per unit, in hundredths
PACKAGING_EMISSIONS ==
  ("plastic" :> (("small" :> 10) @@ ("medium" :> 20) @@ ("large" :> 40))) @@
  ("paper" :> (("small" :> 5) @@ ("medium" :> 10) @@ ("large" :> 20))) @@
  ("aluminum" :> (("small" :> 15) @@ ("medium" :> 30) @@ ("large" :> 50))) @@
  ("styrofoam" :> (("small" :> 15) @@ ("medium" :> 25) @@ ("large" :> 45))) @@
  ("glass" :> (("small" :> 30) @@ ("medium" :> 50) @@ ("large" :> 80)))

DEFAULT_PACKAGING == [type |-> "plastic", size |-> "medium"]

\* 0.2 kg CO2e per dish, in hundredths
PACKAGING_EMISSION_PER_DISH == 20

\* transport mode -> kg CO2e per km, in thousandths
TRAVEL_EMISSIONS ==
  ("motorcycle" :> 115) @@ ("scooter" :> 90) @@ ("car" :> 180) @@
  ("electric-car" :> 60) @@ ("van" :> 230) @@ ("bicycle" :> 8) @@
  ("e-bicycle" :> 10) @@ ("walking" :> 0)

DEFAULT_TRANSPORT == "motorcycle"

\* 0.105 kg CO2e per km, in thousandths
TRAVEL_EMISSION_PER_KM == 105

\* dish name -> ingredient -> grams per serving
RECIPE_DB ==
  ("kadhai paneer" :>
     (("paneer" :> 100) @@ ("bell pepper" :> 50) @@ ("onions" :> 50) @@ ("tomatoes" :> 100) @@ ("oil" :> 10) @@ ("spices" :> 5))) @@
  ("tawa roti" :>
     (("wheat" :> 50) @@ ("oil" :> 2))) @@
  ("dal fry" :>
     (("lentils" :> 100) @@ ("onions" :> 30) @@ ("tomatoes" :> 50) @@ ("oil" :> 10) @@ ("spices" :> 5))) @@
  ("chicken curry" :>
     (("chicken" :> 150) @@ ("onions" :> 50) @@ ("tomatoes" :> 100) @@ ("oil" :> 15) @@ ("spices" :> 8))) @@
  ("chole kulche" :>
     (("chickpeas" :> 150) @@ ("onions" :> 30) @@ ("tomatoes" :> 50) @@ ("oil" :> 10) @@ ("flour" :> 80) @@ ("butter" :> 5) @@ ("spices" :> 8))) @@
  ("butter chicken" :>
     (("chicken" :> 200) @@ ("butter" :> 30) @@ ("cream" :> 50) @@ ("tomatoes" :> 100) @@ ("onions" :> 30) @@ ("spices" :> 10))) @@
  ("palak paneer" :>
     (("paneer" :> 100) @@ ("spinach" :> 200) @@ ("onions" :> 30) @@ ("tomatoes" :> 20) @@ ("cream" :> 20) @@ ("oil" :> 10) @@ ("spices" :> 5))) @@
  ("biryani" :>
     (("rice" :> 150) @@ ("chicken" :> 100) @@ ("onions" :> 50) @@ ("oil" :> 15) @@ ("spices" :> 10))) @@
  ("naan" :>
     (("flour" :> 80) @@ ("yogurt" :> 20) @@ ("butter" :> 10))) @@
  ("samosa" :>
     (("flour" :> 50) @@ ("potatoes" :> 80) @@ ("peas" :> 20) @@ ("oil" :> 30) @@ ("spices" :> 5)))

\* Names every JavaScript object inherits from Object.prototype: table[name]
\* is truthy for them (a function, or the prototype object) although the
\* table has no such entry.
ObjectPrototypeKeys ==
  {"constructor", "__proto__", "toString", "toLocaleString", "valueOf",
   "hasOwnProperty", "isPrototypeOf", "propertyIsEnumerable"}

(***************************************************************************)
(* JavaScript values                                                       *)
(***************************************************************************)

Num(n) == [t |-> "number", v |-> n]

Undefined == [t |-> "undefined", v |-> 0]

Null == [t |-> "null", v |-> 0]

NaN == [t |-> "NaN", v |-> 0]

IsNum(a) == a.t = "number"

\* ToBoolean on undefined / null / NaN / number
Truthy(a) == a.t = "number" /\ a.v # 0

\* a || b
JsOr(a, b) == IF Truthy(a) THEN a ELSE b

\* a * b ; undefined and NaN operands give NaN
JsMul(a, b) == IF IsNum(a) /\ IsNum(b) THEN Num(a.v * b.v) ELSE NaN

\* a + b on numbers ; a NaN operand gives NaN
JsAdd(a, b) == IF IsNum(a) /\ IsNum(b) THEN Num(a.v + b.v) ELSE NaN

\* table[key] for a table of numbers: undefined when the key is absent
Lookup(table, key) ==
  IF key \in DOMAIN table THEN Num(table[key]) ELSE Undefined

\* round(n / d) to the nearest integer (n >= 0, d > 0). An exact half is
\* rounded up; toFixed decides it by the binary value of the double.
RoundDiv(n, d) == (2 * n + d) \div (2 * d)

\* Number.prototype.toFixed(2) of a value held in 1e-6: hundredths ; "NaN"
\* for NaN
ToFixed2(a) == IF IsNum(a) THEN Num(RoundDiv(a.v, 10000)) ELSE NaN

(***************************************************************************)
(* Strings                                                                 *)
(***************************************************************************)

CharAt(s, i) == SubSeq(s, i, i)

\* String.prototype.includes
Includes(s, kw) ==
  \E i \in 1..(Len(s) - Len(kw) + 1) : SubSeq(s, i, i + Len(kw) - 1) = kw

UpperToLower ==
  ("A" :> "a") @@ ("B" :> "b") @@ ("C" :> "c") @@ ("D" :> "d") @@
  ("E" :> "e") @@ ("F" :> "f") @@ ("G" :> "g") @@ ("H" :> "h") @@
  ("I" :> "i") @@ ("J" :> "j") @@ ("K" :> "k") @@ ("L" :> "l") @@
  ("M" :> "m") @@ ("N" :> "n") @@ ("O" :> "o") @@ ("P" :> "p") @@
  ("Q" :> "q") @@ ("R" :> "r") @@ ("S" :> "s") @@ ("T" :> "t") @@
  ("U" :> "u") @@ ("V" :> "v") @@ ("W" :> "w") @@ ("X" :> "x") @@
  ("Y" :> "y") @@ ("Z" :> "z")

RECURSIVE ToLowerCase(_)
\* String.prototype.toLowerCase
ToLowerCase(s) ==
  IF s = "" THEN ""
  ELSE LET c == CharAt(s, 1)
       IN  (IF c \in DOMAIN UpperToLower THEN UpperToLower[c] ELSE c)
             \o ToLowerCase(SubSeq(s, 2, Len(s)))

RECURSIVE TrimStart(_)
TrimStart(s) ==
  IF s # "" /\ CharAt(s, 1) = " " THEN TrimStart(SubSeq(s, 2, Len(s))) ELSE s

RECURSIVE TrimEnd(_)
TrimEnd(s) ==
  IF s # "" /\ CharAt(s, Len(s)) = " "
  THEN TrimEnd(SubSeq(s, 1, Len(s) - 1)) ELSE s

\* String.prototype.trim
Trim(s) == TrimEnd(TrimStart(s))

RECURSIVE SplitFrom(_, _, _)
\* the pieces of s from position i on, the current piece starting at start
SplitFrom(s, start, i) ==
  IF i > Len(s) THEN << SubSeq(s, start, Len(s)) >>
  ELSE IF CharAt(s, i) = ","
       THEN << SubSeq(s, start, i - 1) >> \o SplitFrom(s, i + 1, i + 1)
       ELSE SplitFrom(s, start, i + 1)

\* String.prototype.split(",")
Split(s) == SplitFrom(s, 1, 1)

Digits ==
  ("0" :> 0) @@ ("1" :> 1) @@ ("2" :> 2) @@ ("3" :> 3) @@ ("4" :> 4) @@
  ("5" :> 5) @@ ("6" :> 6) @@ ("7" :> 7) @@ ("8" :> 8) @@ ("9" :> 9)

IsDigit(c) == c \in DOMAIN Digits

RECURSIVE ParseInt(_)
\* parseInt of a string of decimal digits
ParseInt(s) ==
  IF s = "" THEN 0
  ELSE 10 * ParseInt(SubSeq(s, 1, Len(s) - 1)) + Digits[CharAt(s, Len(s))]

(***************************************************************************)
(* Ingredient quantity maps: functions from ingredient name to grams       *)
(***************************************************************************)

EmptyMap == [k \in {} |-> 0]

Keys(m) == DOMAIN m

\* the hand-authored composition for a dish family
estimateDishIngredients(dishName) ==
  LET name == ToLowerCase(dishName) IN
  IF Includes(name, "chicken") \/ Includes(name, "murgh")
  THEN ("chicken" :> 150) @@ ("onions" :> 40) @@ ("tomatoes" :> 60) @@
       ("oil" :> 15) @@ ("spices" :> 10)
  ELSE IF Includes(name, "paneer")
  THEN ("paneer" :> 100) @@ ("onions" :> 40) @@ ("tomatoes" :> 60) @@
       ("oil" :> 10) @@ ("spices" :> 8)
  ELSE IF Includes(name, "dal") \/ Includes(name, "lentil")
  THEN ("lentils" :> 100) @@ ("onions" :> 30) @@ ("tomatoes" :> 40) @@
       ("oil" :> 10) @@ ("spices" :> 5)
  ELSE IF Includes(name, "rice") \/ Includes(name, "biryani")
            \/ Includes(name, "pulao")
  THEN LET result == ("rice" :> 150) @@ ("onions" :> 30) @@ ("oil" :> 15) @@
                     ("spices" :> 8)
       IN  IF Includes(name, "chicken") \/ Includes(name, "murgh")
           THEN ("chicken" :> 100) @@ result
           ELSE IF Includes(name, "mutton") \/ Includes(name, "lamb")
           THEN ("lamb" :> 100) @@ result
           ELSE IF Includes(name, "veg")
           THEN ("vegetables" :> 100) @@ result
           ELSE result
  ELSE IF Includes(name, "roti") \/ Includes(name, "naan")
            \/ Includes(name, "bread")
  THEN ("flour" :> 80) @@ ("oil" :> 5)
  ELSE ("vegetables" :> 150) @@ ("onions" :> 40) @@ ("tomatoes" :> 50) @@
       ("oil" :> 10) @@ ("spices" :> 5)

\* a resolver that tests the oil keywords before the dairy keywords
estimateEmissionCategory_OilFirst(ingredient) ==
  LET lower == ToLowerCase(ingredient)
      HasAny(kws) == \E kw \in kws : Includes(lower, kw)
  IN
  IF HasAny({"meat", "beef", "lamb", "pork", "veal"})
  THEN INGREDIENT_CATEGORY_FALLBACK["meat"]
  ELSE IF HasAny({"fish", "prawn", "shrimp", "salmon", "seafood"})
  THEN INGREDIENT_CATEGORY_FALLBACK["seafood"]
  ELSE IF HasAny({"oil", "fat", "ghee"})
  THEN INGREDIENT_CATEGORY_FALLBACK["oil"]
  ELSE IF HasAny({"milk", "cream", "cheese", "curd", "yogurt", "butter", "ghee"})
  THEN INGREDIENT_CATEGORY_FALLBACK["dairy"]
  ELSE IF HasAny({"flour", "bread", "roti", "naan", "rice", "cereal", "grain",
               "pasta"})
  THEN INGREDIENT_CATEGORY_FALLBACK["grains"]
  ELSE IF HasAny({"chickpeas", "lentils", "dal", "beans", "peas"})
  THEN INGREDIENT_CATEGORY_FALLBACK["pulses"]
  ELSE IF HasAny({"spice", "masala", "powder", "sauce", "paste", "extract"})
  THEN INGREDIENT_CATEGORY_FALLBACK["spices"]
  ELSE IF HasAny({"nut", "almond", "cashew", "seed"})
  THEN INGREDIENT_CATEGORY_FALLBACK["nuts"]
  ELSE IF HasAny({"drink", "juice", "tea", "coffee"})
  THEN INGREDIENT_CATEGORY_FALLBACK["beverages"]
  ELSE IF HasAny({"processed", "frozen", "ready", "instant"})
  THEN INGREDIENT_CATEGORY_FALLBACK["processed"]
  ELSE INGREDIENT_CATEGORY_FALLBACK["vegetables"]

\* the category fallback factor of an ingredient name, in tenths
estimateEmissionCategory(ingredient) ==
  LET lower == ToLowerCase(ingredient)
      HasAny(kws) == \E kw \in kws : Includes(lower, kw)
  IN
  IF HasAny({"meat", "beef", "lamb", "pork", "veal"})
  THEN INGREDIENT_CATEGORY_FALLBACK["meat"]
  ELSE IF HasAny({"fish", "prawn", "shrimp", "salmon", "seafood"})
  THEN INGREDIENT_CATEGORY_FALLBACK["seafood"]
  ELSE IF HasAny({"milk", "cream", "cheese", "curd", "yogurt", "butter", "ghee"})
  THEN INGREDIENT_CATEGORY_FALLBACK["dairy"]
  ELSE IF HasAny({"flour", "bread", "roti", "naan", "rice", "cereal", "grain",
               "pasta"})
  THEN INGREDIENT_CATEGORY_FALLBACK["grains"]
  ELSE IF HasAny({"chickpeas", "lentils", "dal", "beans", "peas"})
  THEN INGREDIENT_CATEGORY_FALLBACK["pulses"]
  ELSE IF HasAny({"oil", "fat", "ghee"})
  THEN INGREDIENT_CATEGORY_FALLBACK["oil"]
  ELSE IF HasAny({"spice", "masala", "powder", "sauce", "paste", "extract"})
  THEN INGREDIENT_CATEGORY_FALLBACK["spices"]
  ELSE IF HasAny({"nut", "almond", "cashew", "seed"})
  THEN INGREDIENT_CATEGORY_FALLBACK["nuts"]
  ELSE IF HasAny({"drink", "juice", "tea", "coffee"})
  THEN INGREDIENT_CATEGORY_FALLBACK["beverages"]
  ELSE IF HasAny({"processed", "frozen", "ready", "instant"})
  THEN INGREDIENT_CATEGORY_FALLBACK["processed"]
  ELSE INGREDIENT_CATEGORY_FALLBACK["vegetables"]

\* FOOD_EMISSIONS_DB[ingredient] || estimateEmissionCategory(ingredient)
\* (every table entry is non-zero, hence truthy)
EmissionFactorOf(ingredient) ==
  IF ingredient \in DOMAIN FOOD_EMISSIONS_DB
  THEN FOOD_EMISSIONS_DB[ingredient]
  ELSE estimateEmissionCategory(ingredient)

RECURSIVE SumOver(_, _)
\* sum of grams * factor over the keys in ks, in 1e-4 kg
SumOver(m, ks) ==
  IF ks = {} THEN 0
  ELSE LET k == CHOOSE x \in ks : TRUE
       IN  m[k] * EmissionFactorOf(k) + SumOver(m, ks \ {k})

\* emission of one serving, in 1e-4 kg ; 1.5 kg for an empty map
computeEmissionFromIngredients(ingredients) ==
  IF Keys(ingredients) = {} THEN 15000
  ELSE SumOver(ingredients, Keys(ingredients))

\* packaging emission in 1e-2 kg.  table[key] ? ... is a truthiness test: it
\* also succeeds for a key inherited from Object.prototype, whose value is
\* no number, so that emissionFactor * numberOfDishes is NaN (as it is for
\* the undefined member of such a value).
calculatePackagingEmissions(numberOfDishes, packagingType, packagingSize) ==
  LET type == IF \/ packagingType \in DOMAIN PACKAGING_EMISSIONS
                 \/ packagingType \in ObjectPrototypeKeys
              THEN packagingType ELSE DEFAULT_PACKAGING.type
      sizes == IF type \in DOMAIN PACKAGING_EMISSIONS
               THEN PACKAGING_EMISSIONS[type] ELSE EmptyMap
      size == IF \/ packagingSize \in DOMAIN sizes
                 \/ packagingSize \in ObjectPrototypeKeys
              THEN packagingSize ELSE DEFAULT_PACKAGING.size
      emissionFactor == Lookup(sizes, size)
      additionalEmissions == Num(5)
  IN  JsAdd(JsMul(emissionFactor, Num(numberOfDishes)), additionalEmissions)

(***************************************************************************)
(* Dish string parsing                                                     *)
(***************************************************************************)

RECURSIVE DigitRunEnd(_, _)
\* the last position of the run of digits that contains position i
DigitRunEnd(s, i) ==
  IF i < Len(s) /\ IsDigit(CharAt(s, i + 1)) THEN DigitRunEnd(s, i + 1) ELSE i

\* the positions where /(\d+) x (.+)/ can start to match
MatchStarts(item) ==
  { s \in 1..Len(item) :
      /\ IsDigit(CharAt(item, s))
      /\ LET e == DigitRunEnd(item, s)
         IN  /\ Len(item) >= e + 4
             /\ SubSeq(item, e + 1, e + 3) = " x " }

\* item.match(/(\d+) x (.+)/): the leftmost match, the groups greedy
Match(item) ==
  IF MatchStarts(item) = {} THEN [matched |-> FALSE, g1 |-> "", g2 |-> ""]
  ELSE LET s == CHOOSE x \in MatchStarts(item) :
                   \A y \in MatchStarts(item) : x <= y
           e == DigitRunEnd(item, s)
       IN  [matched |-> TRUE,
            g1 |-> SubSeq(item, s, e),
            g2 |-> SubSeq(item, e + 4, Len(item))]

\* dishString.toLowerCase().split(",").map(s => s.trim())
ParseDishes(dishString) ==
  LET parts == Split(ToLowerCase(dishString))
  IN  [i \in 1..Len(parts) |-> Trim(parts[i])]

\* if (RECIPE_DB[dishName])
InRecipeDB(dishName) ==
  dishName \in DOMAIN RECIPE_DB \/ dishName \in ObjectPrototypeKeys

\* a resolver that asks the estimator instead of reading the table
RecipeOf_Estimated(dishName) == estimateDishIngredients(dishName)

\* RECIPE_DB[dishName] read as an ingredient map: an inherited member has no
\* enumerable entries
RecipeOf(dishName) ==
  IF dishName \in DOMAIN RECIPE_DB THEN RECIPE_DB[dishName] ELSE EmptyMap

RECURSIVE BuildResult(_, _)
\* the loop of fetchIngredientsFromAPI: result[normalized name] = amount
BuildResult(ingredients, result) ==
  IF ingredients = << >> THEN result
  ELSE LET item == Head(ingredients)
           lower == ToLowerCase(item.name)
           name == IF lower \in DOMAIN INGREDIENT_NORMALIZATION
                   THEN INGREDIENT_NORMALIZATION[lower] ELSE lower
       IN  BuildResult(Tail(ingredients), (name :> item.amount) @@ result)

(***************************************************************************)
(* calculateFoodEmission                                                   *)
(***************************************************************************)

\* travelDetails arguments
TravelUndefined ==
  [t |-> "undefined", v |-> 0, distance |-> Undefined, transportType |-> "",
   emissionFactor |-> Undefined]

TravelNull ==
  [t |-> "null", v |-> 0, distance |-> Undefined, transportType |-> "",
   emissionFactor |-> Undefined]

\* a bare distance, in metres
TravelNumber(m) ==
  [t |-> "number", v |-> m, distance |-> Undefined, transportType |-> "",
   emissionFactor |-> Undefined]

\* {distance, transportType, emissionFactor}; "" is an absent transportType
TravelObject(d, tt, ef) ==
  [t |-> "object", v |-> 0, distance |-> d, transportType |-> tt,
   emissionFactor |-> ef]

\* the "Process travel details" block; numberFactor is the factor the
\* typeof number branch applies
ProcessTravel(travelDetails, numberFactor) ==
  IF travelDetails.t = "null"
  THEN [threw |-> TRUE, travelEmission |-> Num(0), travelDistance |-> Num(0),
        transportType |-> DEFAULT_TRANSPORT]
  ELSE IF travelDetails.t = "object" /\ Truthy(travelDetails.distance)
  THEN LET transportType == IF travelDetails.transportType # ""
                            THEN travelDetails.transportType
                            ELSE DEFAULT_TRANSPORT
       IN  [threw |-> FALSE,
            travelEmission |->
              JsMul(travelDetails.distance,
                    JsOr(travelDetails.emissionFactor,
                         Lookup(TRAVEL_EMISSIONS, transportType))),
            travelDistance |-> travelDetails.distance,
            transportType |-> transportType]
  ELSE IF travelDetails.t = "number"
  THEN [threw |-> FALSE,
        travelEmission |-> JsMul(Num(travelDetails.v), numberFactor),
        travelDistance |-> Num(travelDetails.v),
        transportType |-> DEFAULT_TRANSPORT]
  ELSE [threw |-> FALSE, travelEmission |-> Num(0), travelDistance |-> Num(0),
        transportType |-> DEFAULT_TRANSPORT]

\* travelDistance.toFixed(2): metres to hundredths of a km
DistanceToFixed2(d) == Num(RoundDiv(d.v, 10))

IdleCfe ==
  [pc |-> "idle", dishString |-> "", travelDetails |-> TravelUndefined,
   packagingType |-> "", dishes |-> << >>, i |-> 0, count |-> 0,
   dishName |-> "", totalFoodEmission |-> 0, totalDishCount |-> 0,
   allIngredients |-> EmptyMap, dishDetails |-> << >>, lookups |-> << >>,
   error |-> "", result |-> [empty |-> TRUE]]

\* the "Handle empty dishes" branch
FinishEmpty(f) ==
  LET tr == ProcessTravel(f.travelDetails,
                          Lookup(TRAVEL_EMISSIONS, DEFAULT_TRANSPORT))
  IN  IF tr.threw THEN [f EXCEPT !.pc = "threw", !.error = "TypeError"]
      ELSE [f EXCEPT
              !.pc = "done",
              !.result =
                [food |-> Num(0),
                 packaging |-> Num(0),
                 travel |-> ToFixed2(tr.travelEmission),
                 travelDistance |-> DistanceToFixed2(tr.travelDistance),
                 transportType |-> tr.transportType,
                 total |-> ToFixed2(tr.travelEmission),
                 dishes |-> << >>,
                 ingredients |-> EmptyMap]]

\* the "Calculate packaging emissions" block, in 1e-6 kg
PackagingOf(totalDishCount, packagingType) ==
  IF /\ packagingType # ""
     /\ \/ packagingType \in DOMAIN PACKAGING_EMISSIONS
        \/ packagingType \in ObjectPrototypeKeys
  THEN JsMul(Num(10000),
             calculatePackagingEmissions(
               totalDishCount, packagingType,
               IF totalDishCount > 2 THEN "large" ELSE "medium"))
  ELSE Num(10000 * PACKAGING_EMISSION_PER_DISH * totalDishCount)

\* emission.toFixed(2) of a food emission held in 1e-4 kg, in hundredths
FoodToFixed2(e) == RoundDiv(e, 100)

\* ((emission / totalIngredientEmission) * 100).toFixed(1), in tenths of a
\* percent; emission is the parsed 2-decimal string, the total is in 1e-4 kg
PercentageOf(emission2, totalIngredientEmission) ==
  IF totalIngredientEmission > 0
  THEN RoundDiv(emission2 * 100 * 1000, totalIngredientEmission)
  ELSE 0

\* the "Calculate ingredient emission percentages" block
IngredientEmissions(allIngredients) ==
  LET totalIngredientEmission == SumOver(allIngredients, Keys(allIngredients))
  IN  [k \in Keys(allIngredients) |->
         LET emission == allIngredients[k] * EmissionFactorOf(k)
         IN  [amount |-> allIngredients[k] * 10,
              emission |-> FoodToFixed2(emission),
              percentage |-> PercentageOf(FoodToFixed2(emission),
                                          totalIngredientEmission)]]

\* everything after the loop over the dishes
Finish(f) ==
  LET packagingEmission == PackagingOf(f.totalDishCount, f.packagingType)
      tr == ProcessTravel(f.travelDetails, Num(TRAVEL_EMISSION_PER_KM))
  IN  IF tr.threw THEN [f EXCEPT !.pc = "threw", !.error = "TypeError"]
      ELSE [f EXCEPT
              !.pc = "done",
              !.result =
                [food |-> Num(FoodToFixed2(f.totalFoodEmission)),
                 packaging |-> ToFixed2(packagingEmission),
                 travel |-> ToFixed2(tr.travelEmission),
                 travelDistance |-> DistanceToFixed2(tr.travelDistance),
                 transportType |-> tr.transportType,
                 total |-> ToFixed2(JsAdd(JsAdd(Num(100 * f.totalFoodEmission),
                                                packagingEmission),
                                          tr.travelEmission)),
                 dishes |-> f.dishDetails,
                 ingredients |-> IngredientEmissions(f.allIngredients),
                 dishCount |-> f.totalDishCount,
                 packagingType |-> f.packagingType]]

\* the rest of the loop body once the ingredients of the dish are known
Accumulate(f, ingredients) ==
  LET emission == computeEmissionFromIngredients(ingredients)
      all == f.allIngredients
  IN  [f EXCEPT
         !.totalFoodEmission = @ + emission * f.count,
         !.allIngredients =
           [k \in Keys(all) \cup Keys(ingredients) |->
              (IF k \in Keys(all) THEN all[k] ELSE 0)
              + (IF k \in Keys(ingredients) THEN ingredients[k] * f.count
                 ELSE 0)],
         !.dishDetails =
           Append(@, [name |-> f.dishName,
                      count |-> f.count,
                      emission |-> FoodToFixed2(emission),
                      totalEmission |-> FoodToFixed2(emission * f.count),
                      ingredients |-> ingredients]),
         !.i = @ + 1]

RECURSIVE ProcessItems(_)
\* the loop over the dishes, run until it has to wait for the recipe lookup
\* or until the function returns
ProcessItems(f) ==
  IF f.i > Len(f.dishes) THEN Finish(f)
  ELSE LET match == Match(f.dishes[f.i])
       IN  IF ~match.matched THEN ProcessItems([f EXCEPT !.i = @ + 1])
           ELSE LET count == ParseInt(match.g1)
                    dishName == Trim(match.g2)
                    g == [f EXCEPT !.count = count, !.dishName = dishName,
                                   !.totalDishCount = @ + count]
                IN  IF InRecipeDB(dishName)
                    THEN ProcessItems(Accumulate(g, RecipeOf(dishName)))
                    ELSE [g EXCEPT !.pc = "awaitSearch",
                                   !.lookups = Append(@, dishName)]

\* the function up to its first wait or its return
Start(dishString, travelDetails, packagingType) ==
  LET f == [IdleCfe EXCEPT
              !.dishString = dishString,
              !.travelDetails = IF travelDetails.t = "undefined"
                                THEN TravelNumber(0) ELSE travelDetails,
              !.packagingType = packagingType]
  IN  IF dishString = "" THEN FinishEmpty(f)
      ELSE ProcessItems([f EXCEPT !.dishes = ParseDishes(dishString),
                                  !.i = 1])

(***************************************************************************)
(* getTravelDistanceKm                                                     *)
(***************************************************************************)

IdleGtd ==
  [pc |-> "idle", originAddress |-> "", destCoords |-> Null,
   transportType |-> "", error |-> "",
   result |-> [distance |-> 0, transportType |-> "",
               emissionFactor |-> Undefined]]

\* TRAVEL_EMISSIONS[transportType] || TRAVEL_EMISSIONS[DEFAULT_TRANSPORT]
ResolveEmissionFactor(transportType) ==
  JsOr(Lookup(TRAVEL_EMISSIONS, transportType),
       Lookup(TRAVEL_EMISSIONS, DEFAULT_TRANSPORT))

\* 5 km, in metres
FallbackDistance == 5000

\* return {distance, transportType, emissionFactor}
ReturnDistance(g, metres) ==
  [g EXCEPT !.pc = "done",
            !.result = [distance |-> metres,
                        transportType |-> g.transportType,
                        emissionFactor |->
                          ResolveEmissionFactor(g.transportType)]]

\* the function up to its first wait or its return; getCoordinatesFromAddress
\* answers null without a request when the address is blank
StartTravel(originAddress, destCoords, transportType) ==
  LET g == [IdleGtd EXCEPT !.originAddress = originAddress,
                           !.destCoords = destCoords,
                           !.transportType = IF transportType = ""
                                             THEN DEFAULT_TRANSPORT
                                             ELSE transportType]
  IN  IF originAddress = "" \/ destCoords.t = "null"
      THEN ReturnDistance(g, FallbackDistance)
      ELSE IF Trim(originAddress) = ""
      THEN ReturnDistance(g, FallbackDistance)
      ELSE [g EXCEPT !.pc = "awaitGeocode"]

(***************************************************************************)
(* Inputs                                                                  *)
(***************************************************************************)

\* the largest number of comma-separated clauses of a dish string
MaxClauses == 2

Clauses ==
  {"2 x butter chicken", "1 x naan", "abc", "1 x tawa roti", "1.5 x naan",
   "0 x samosa", "3 x Dal Fry", "1 x chicken biryani", "1 x mystery bowl"}

RECURSIVE JoinClauses(_)
JoinClauses(cs) ==
  IF cs = << >> THEN ""
  ELSE IF Len(cs) = 1 THEN cs[1]
  ELSE cs[1] \o ", " \o JoinClauses(Tail(cs))

DishStrings ==
  { JoinClauses(cs) : cs \in UNION { [1..n -> Clauses] : n \in 0..MaxClauses } }

TravelInputs ==
  {TravelUndefined, TravelNull, TravelNumber(7500),
   TravelObject(Num(5000), "motorcycle", Num(115)),
   TravelObject(Num(1234), "", Undefined),
   TravelObject(Num(3250), "rocket", Undefined),
   TravelObject(Num(3250), "rocket", Num(200))}

PackagingInputs == {"plastic", "cardboard"}

\* answers of the recipe search: a failed request, no recipe, a recipe
SearchOutcomes == {"error", "noResults", "found"}

\* ingredient lists of the recipe details answer
ApiIngredientLists ==
  {<< >>,
   <<[name |-> "Chicken Breast", amount |-> 120],
     [name |-> "chicken thigh", amount |-> 80],
     [name |-> "rice", amount |-> 150]>>,
   <<[name |-> "curd", amount |-> 50],
     [name |-> "desi ghee", amount |-> 10]>>}

DetailsOutcomes ==
  {[ok |-> FALSE, ingredients |-> << >>]}
    \cup {[ok |-> TRUE, ingredients |-> l] : l \in ApiIngredientLists}

OriginAddresses == {"", "   ", "12 MG Road"}

DestCoordsInputs == {Null, [t |-> "object", v |-> 0]}

\* "" is an absent transportType argument
TransportInputs == {""} \cup DOMAIN TRAVEL_EMISSIONS \cup {"rocket"}

GeocodeOutcomes == {"error", "noFeatures", "coords"}

\* a failed request, or the distance of the route in metres
RouteOutcomes ==
  {[ok |-> FALSE, metres |-> 0], [ok |-> TRUE, metres |-> 0],
   [ok |-> TRUE, metres |-> 7512]}

\* ingredient names handed to estimateEmissionCategory
IngredientNames ==
  {"desi ghee", "veal stock", "fish sauce", "coconut milk", "peanut butter",
   "rice bran oil", "frozen peas", "Beef Fat", "sunflower oil",
   "garam masala", "almond", "green tea", "instant noodle", "kale"}

\* ingredient maps (name -> grams) handed to computeEmissionFromIngredients
IngredientMaps ==
  {EmptyMap,
   ("curd" :> 100),
   ("pepper" :> 50),
   ("mutton" :> 200),
   ("rice" :> 150) @@ ("chicken" :> 100),
   ("cream cheese" :> 30) @@ ("kale" :> 40)}

MaxDishes == 4

DishCounts == 0..MaxDishes

\* "" is an absent argument
PackagingTypeInputs ==
  {""} \cup DOMAIN PACKAGING_EMISSIONS \cup {"cardboard", "constructor"}

PackagingSizeInputs == {"", "small", "medium", "large", "huge", "valueOf"}

(***************************************************************************)
(* State                                                                   *)
(***************************************************************************)

VARIABLES
  cfe,          \* the activation of calculateFoodEmission
  gtd,          \* the activation of getTravelDistanceKm
  lastResponse, \* the latest answer of an external collaborator; value is
                \* the distance of a route answer, in metres
  direct,       \* a call of one of the exported synchronous functions:
                \* its name, its arguments and the value it returned
  inv,          \* the activations of two requests served at the same time
  tables,       \* the module-level tables, which every activation shares
  ai,           \* the activation of getOrderRecommendations or of
                \* getOverallRecommendations
  memoryCache,  \* the two Maps of memoryCache
  recommendationDb, \* the documents of the Recommendation collection
  now,          \* Date.now(), in units of 15 minutes
  users,        \* the ids of the documents of the User collection
  orders,       \* the documents of the Order collection
  req,          \* the request a route of /api/orders is serving
  batch         \* the local variables of the POST /zomato/fetch handler

aiVars == << ai, memoryCache, recommendationDb, now >>

routeVars == << users, orders, req, batch >>

vars == << cfe, gtd, lastResponse, direct, inv, tables, aiVars, routeVars >>

NoResponse == [api |-> "none", outcome |-> "none", value |-> 0]

NoDirect == [fn |-> "none"]

Invocations == {1, 2}

\* frame: the local variables of the activation; answers: the answers of
\* the recipe lookup it has received; overlapped: a step of it ran while the
\* other activation was waiting for an answer
IdleInvocation == [frame |-> IdleCfe, answers |-> << >>, overlapped |-> FALSE]

StaticTables ==
  [FOOD_EMISSIONS_DB |-> FOOD_EMISSIONS_DB,
   INGREDIENT_NORMALIZATION |-> INGREDIENT_NORMALIZATION,
   INGREDIENT_CATEGORY_FALLBACK |-> INGREDIENT_CATEGORY_FALLBACK,
   PACKAGING_EMISSIONS |-> PACKAGING_EMISSIONS,
   TRAVEL_EMISSIONS |-> TRAVEL_EMISSIONS,
   RECIPE_DB |-> RECIPE_DB]

\* served: the cache entry a lookup has answered the call from and the time
\* of that lookup; stored: the call has written to memoryCache
IdleAi == [pc |-> "idle", fn |-> "none", order |-> [id |-> "", user |-> "",
                                                     items |-> << >>],
           userId |-> "", orderCount |-> 0, recommendations |-> [kind |-> "none"],
           result |-> [kind |-> "none"], served |-> [from |-> "none"],
           stored |-> FALSE]

\* new Map() twice
EmptyCache ==
  [orderRecommendations |-> EmptyMap, userOverallRecommendations |-> EmptyMap]

\* the registered users
InitialUsers == {"u1", "u2"}

\* an Order document: _id, user, the Zomato orderId and the items
OrderDoc(id, user, orderId, items) ==
  [id |-> id, user |-> user, orderId |-> orderId, items |-> items]

\* one stored order of each user
InitialOrders ==
  {OrderDoc("o1", "u1", "z0",
            <<[name |-> "Paneer Tikka", category |-> "veg"],
              [name |-> "Chicken Biryani", category |-> "non-veg"],
              [name |-> "Cola", category |-> ""]>>),
   OrderDoc("o2", "u2", "z0", <<[name |-> "Dal", category |-> "veg"]>>)}

\* no Authorization header
NoToken == [kind |-> "none", id |-> ""]

NoOrder == OrderDoc("", "", "", << >>)

\* no request in progress
IdleReq == [pc |-> "idle", route |-> "none", token |-> NoToken, id |-> "",
            ordersData |-> [t |-> "undefined"], user |-> "",
            handler |-> FALSE, order |-> NoOrder, status |-> 0,
            body |-> [kind |-> "none"]]

\* the locals of POST /zomato/fetch, and the number of documents created
IdleBatch == [ordersArray |-> << >>, i |-> 0, processedOrders |-> << >>,
              errors |-> << >>, created |-> 0]

Init ==
  /\ cfe = IdleCfe
  /\ gtd = IdleGtd
  /\ lastResponse = NoResponse
  /\ direct = NoDirect
  /\ inv = [i \in Invocations |-> IdleInvocation]
  /\ tables = StaticTables
  /\ ai = IdleAi
  /\ memoryCache = EmptyCache
  /\ recommendationDb = {}
  /\ now = 0
  /\ users = InitialUsers
  /\ orders = InitialOrders
  /\ req = IdleReq
  /\ batch = IdleBatch

CallCalculateFoodEmission(dishString, travelDetails, packagingType) ==
  /\ cfe.pc = "idle"
  /\ gtd.pc = "idle"
  /\ direct.fn = "none"
  /\ cfe' = Start(dishString, travelDetails, packagingType)
  /\ lastResponse' = NoResponse
  /\ UNCHANGED << gtd, direct, inv, tables, aiVars, routeVars >>

\* fetchIngredientsFromAPI and the rest of the loop after the answer of the
\* complexSearch request
AfterSearch(f, outcome) ==
  IF outcome = "found"
  THEN [f EXCEPT !.pc = "awaitDetails"]
  ELSE ProcessItems(Accumulate(f, estimateDishIngredients(f.dishName)))

\* fetchIngredientsFromAPI and the rest of the loop after the answer of the
\* ingredientWidget request
AfterDetails(f, resp) ==
  IF resp.ok
  THEN ProcessItems(Accumulate(f, BuildResult(resp.ingredients, EmptyMap)))
  ELSE ProcessItems(Accumulate(f, estimateDishIngredients(f.dishName)))

\* a lookup whose request error is thrown on to the caller
SearchResponds_Rethrow(outcome) ==
  /\ cfe.pc = "awaitSearch"
  /\ cfe' = IF outcome = "found"
            THEN [cfe EXCEPT !.pc = "awaitDetails"]
            ELSE IF outcome = "error"
            THEN [cfe EXCEPT !.pc = "threw", !.error = "LookupError"]
            ELSE ProcessItems(
                   Accumulate(cfe, estimateDishIngredients(cfe.dishName)))
  /\ lastResponse' = [api |-> "search", outcome |-> outcome, value |-> 0]
  /\ UNCHANGED << gtd, direct, inv, tables, aiVars, routeVars >>

\* the answer of the complexSearch request of fetchIngredientsFromAPI
SearchResponds(outcome) ==
  /\ cfe.pc = "awaitSearch"
  /\ cfe' = AfterSearch(cfe, outcome)
  /\ lastResponse' = [api |-> "search", outcome |-> outcome, value |-> 0]
  /\ UNCHANGED << gtd, direct, inv, tables, aiVars, routeVars >>

\* the answer of the ingredientWidget request of fetchIngredientsFromAPI
DetailsResponds(resp) ==
  /\ cfe.pc = "awaitDetails"
  /\ cfe' = AfterDetails(cfe, resp)
  /\ lastResponse' = [api |-> "details",
                      outcome |-> IF resp.ok THEN "ok" ELSE "error",
                      value |-> 0]
  /\ UNCHANGED << gtd, direct, inv, tables, aiVars, routeVars >>

\* the caller takes the result or the rejection
CompleteCalculateFoodEmission ==
  /\ cfe.pc \in {"done", "threw"}
  /\ cfe' = IdleCfe
  /\ lastResponse' = NoResponse
  /\ UNCHANGED << gtd, direct, inv, tables, aiVars, routeVars >>

CallGetTravelDistanceKm(originAddress, destCoords, transportType) ==
  /\ cfe.pc = "idle"
  /\ gtd.pc = "idle"
  /\ direct.fn = "none"
  /\ gtd' = StartTravel(originAddress, destCoords, transportType)
  /\ lastResponse' = NoResponse
  /\ UNCHANGED << cfe, direct, inv, tables, aiVars, routeVars >>

\* the answer of the geocoding request of getCoordinatesFromAddress
GeocodeResponds(outcome) ==
  /\ gtd.pc = "awaitGeocode"
  /\ gtd' = IF outcome = "coords"
            THEN [gtd EXCEPT !.pc = "awaitRoute"]
            ELSE ReturnDistance(gtd, FallbackDistance)
  /\ lastResponse' = [api |-> "geocode", outcome |-> outcome, value |-> 0]
  /\ UNCHANGED << cfe, direct, inv, tables, aiVars, routeVars >>

\* a routing step whose failure path returns no distance at all
RouteResponds_ZeroOnFailure(resp) ==
  /\ gtd.pc = "awaitRoute"
  /\ gtd' = IF resp.ok
            THEN ReturnDistance(gtd, resp.metres)
            ELSE ReturnDistance(gtd, 0)
  /\ lastResponse' = [api |-> "route",
                      outcome |-> IF resp.ok THEN "ok" ELSE "error",
                      value |-> resp.metres]
  /\ UNCHANGED << cfe, direct, inv, tables, aiVars, routeVars >>

\* the answer of the routing request
RouteResponds(resp) ==
  /\ gtd.pc = "awaitRoute"
  /\ gtd' = IF resp.ok
            THEN ReturnDistance(gtd, resp.metres)
            ELSE ReturnDistance(gtd, FallbackDistance)
  /\ lastResponse' = [api |-> "route",
                      outcome |-> IF resp.ok THEN "ok" ELSE "error",
                      value |-> resp.metres]
  /\ UNCHANGED << cfe, direct, inv, tables, aiVars, routeVars >>

CompleteGetTravelDistanceKm ==
  /\ gtd.pc = "done"
  /\ gtd' = IdleGtd
  /\ lastResponse' = NoResponse
  /\ UNCHANGED << cfe, direct, inv, tables, aiVars, routeVars >>

\* a caller of the exported estimateEmissionCategory
CallEstimateEmissionCategory(ingredient) ==
  /\ cfe.pc = "idle"
  /\ gtd.pc = "idle"
  /\ direct.fn = "none"
  /\ direct' = [fn |-> "estimateEmissionCategory",
                ingredient |-> ingredient,
                value |-> estimateEmissionCategory(ingredient)]
  /\ UNCHANGED << cfe, gtd, lastResponse, inv, tables, aiVars, routeVars >>

\* a caller of the exported computeEmissionFromIngredients
CallComputeEmissionFromIngredients(ingredients) ==
  /\ cfe.pc = "idle"
  /\ gtd.pc = "idle"
  /\ direct.fn = "none"
  /\ direct' = [fn |-> "computeEmissionFromIngredients",
                ingredients |-> ingredients,
                value |-> computeEmissionFromIngredients(ingredients)]
  /\ UNCHANGED << cfe, gtd, lastResponse, inv, tables, aiVars, routeVars >>

\* a caller of the exported calculatePackagingEmissions
CallCalculatePackagingEmissions(numberOfDishes, packagingType, packagingSize) ==
  /\ cfe.pc = "idle"
  /\ gtd.pc = "idle"
  /\ direct.fn = "none"
  /\ direct' = [fn |-> "calculatePackagingEmissions",
                numberOfDishes |-> numberOfDishes,
                packagingType |-> packagingType,
                packagingSize |-> packagingSize,
                value |-> calculatePackagingEmissions(
                            numberOfDishes, packagingType, packagingSize)]
  /\ UNCHANGED << cfe, gtd, lastResponse, inv, tables, aiVars, routeVars >>

\* the caller takes the value
CompleteDirect ==
  /\ direct.fn # "none"
  /\ direct' = NoDirect
  /\ UNCHANGED << cfe, gtd, lastResponse, inv, tables, aiVars, routeVars >>

Next ==
  \/ \E d \in DishStrings, t \in TravelInputs, p \in PackagingInputs :
       CallCalculateFoodEmission(d, t, p)
  \/ \E o \in SearchOutcomes : SearchResponds(o)
  \/ \E r \in DetailsOutcomes : DetailsResponds(r)
  \/ CompleteCalculateFoodEmission
  \/ \E a \in OriginAddresses, c \in DestCoordsInputs, t \in TransportInputs :
       CallGetTravelDistanceKm(a, c, t)
  \/ \E o \in GeocodeOutcomes : GeocodeResponds(o)
  \/ \E r \in RouteOutcomes : RouteResponds(r)
  \/ CompleteGetTravelDistanceKm
  \/ \E n \in IngredientNames : CallEstimateEmissionCategory(n)
  \/ \E m \in IngredientMaps : CallComputeEmissionFromIngredients(m)
  \/ \E n \in DishCounts, t \in PackagingTypeInputs,
        s \in PackagingSizeInputs :
       CallCalculatePackagingEmissions(n, t, s)
  \/ CompleteDirect

Spec == Init /\ [][Next]_vars

\* Spec with the progress the event loop guarantees: a returned value or a
\* settled promise is handed to its caller. No request carries a timeout
\* option (axios.get / axios.post are called with params or headers only)
\* and no timer is started, so nothing is assumed of the answers of the
\* collaborators.
LiveSpec ==
  /\ Init
  /\ [][Next]_vars
  /\ WF_vars(CompleteCalculateFoodEmission)
  /\ WF_vars(CompleteGetTravelDistanceKm)
  /\ WF_vars(CompleteDirect)

(***************************************************************************)
(* Two requests served at the same time: both call calculateFoodEmission   *)
(* and their steps interleave at the awaits of the recipe lookup           *)
(***************************************************************************)

ReentrantDishStrings ==
  {"1 x naan, 1 x mystery bowl", "2 x mystery bowl", "1 x samosa"}

ReentrantTravelInputs ==
  {TravelNumber(7500), TravelObject(Num(5000), "motorcycle", Num(115))}

Other(i) == CHOOSE j \in Invocations : j # i

InFlight(i) == inv[i].frame.pc \in {"awaitSearch", "awaitDetails"}

InvCall(i, dishString, travelDetails) ==
  /\ inv[i].frame.pc = "idle"
  /\ inv' = [inv EXCEPT ![i] =
               [frame |-> Start(dishString, travelDetails, "plastic"),
                answers |-> << >>,
                overlapped |-> InFlight(Other(i))]]
  /\ UNCHANGED << cfe, gtd, lastResponse, direct, tables, aiVars, routeVars >>

\* an engine whose accumulators are module-level variables: the step goes on
\* with what the other activation has accumulated
InvSearchResponds_SharedAccumulators(i, outcome) ==
  /\ inv[i].frame.pc = "awaitSearch"
  /\ inv' = [inv EXCEPT ![i] =
               [frame |-> AfterSearch(
                            [inv[i].frame EXCEPT
                               !.allIngredients =
                                 inv[Other(i)].frame.allIngredients,
                               !.totalFoodEmission =
                                 inv[Other(i)].frame.totalFoodEmission],
                            outcome),
                answers |-> Append(@.answers,
                                   [api |-> "search", outcome |-> outcome]),
                overlapped |-> @.overlapped \/ InFlight(Other(i))]]
  /\ UNCHANGED << cfe, gtd, lastResponse, direct, tables, aiVars, routeVars >>

\* the answer of the complexSearch request of activation i
InvSearchResponds(i, outcome) ==
  /\ inv[i].frame.pc = "awaitSearch"
  /\ inv' = [inv EXCEPT ![i] =
               [frame |-> AfterSearch(inv[i].frame, outcome),
                answers |-> Append(@.answers,
                                   [api |-> "search", outcome |-> outcome]),
                overlapped |-> @.overlapped \/ InFlight(Other(i))]]
  /\ UNCHANGED << cfe, gtd, lastResponse, direct, tables, aiVars, routeVars >>

\* the answer of the ingredientWidget request of activation i
InvDetailsResponds(i, resp) ==
  /\ inv[i].frame.pc = "awaitDetails"
  /\ inv' = [inv EXCEPT ![i] =
               [frame |-> AfterDetails(inv[i].frame, resp),
                answers |-> Append(@.answers,
                                   [api |-> "details", resp |-> resp]),
                overlapped |-> @.overlapped \/ InFlight(Other(i))]]
  /\ UNCHANGED << cfe, gtd, lastResponse, direct, tables, aiVars, routeVars >>

\* the caller of activation i takes the result or the rejection
InvReturn(i) ==
  /\ inv[i].frame.pc \in {"done", "threw"}
  /\ inv' = [inv EXCEPT ![i] = IdleInvocation]
  /\ UNCHANGED << cfe, gtd, lastResponse, direct, tables, aiVars, routeVars >>

NextReentrant ==
  \/ \E i \in Invocations, d \in ReentrantDishStrings,
        t \in ReentrantTravelInputs : InvCall(i, d, t)
  \/ \E i \in Invocations, o \in SearchOutcomes : InvSearchResponds(i, o)
  \/ \E i \in Invocations, r \in DetailsOutcomes : InvDetailsResponds(i, r)
  \/ \E i \in Invocations : InvReturn(i)

SpecReentrant == Init /\ [][NextReentrant]_vars

(***************************************************************************)
(* aiService.js: the in-memory cache, the Recommendation collection and    *)
(* the two recommendation functions                                        *)
(***************************************************************************)

\* 15 * 60 * 1000 ms, in units of 15 minutes
CACHE_TTL == 1

MaxTime == 3

\* a key removed from a Map
MapDelete(m, key) == [k \in DOMAIN m \ {key} |-> m[k]]

\* memoryCache.storeOrderRecommendation at time t
storeOrderRecommendation(cache, orderId, recommendations, t) ==
  [cache EXCEPT !.orderRecommendations =
     (orderId :> [recommendations |-> recommendations, timestamp |-> t])
       @@ @]

\* a cache whose order lookup does not test the age of the entry
getOrderRecommendation_NoExpiry(cache, orderId, t) ==
  IF orderId \notin DOMAIN cache.orderRecommendations
  THEN [hit |-> FALSE, expired |-> FALSE, entry |-> [timestamp |-> 0],
        cache |-> cache]
  ELSE [hit |-> TRUE, expired |-> FALSE,
        entry |-> cache.orderRecommendations[orderId], cache |-> cache]

\* memoryCache.getOrderRecommendation at time t: the entry when it returns
\* its recommendations (hit), null otherwise, and the cache it leaves
getOrderRecommendation(cache, orderId, t) ==
  IF orderId \notin DOMAIN cache.orderRecommendations
  THEN [hit |-> FALSE, expired |-> FALSE, entry |-> [timestamp |-> 0],
        cache |-> cache]
  ELSE LET cached == cache.orderRecommendations[orderId]
       IN  IF t - cached.timestamp > CACHE_TTL
           THEN [hit |-> FALSE, expired |-> TRUE, entry |-> cached,
                 cache |-> [cache EXCEPT !.orderRecommendations =
                                           MapDelete(@, orderId)]]
           ELSE [hit |-> TRUE, expired |-> FALSE, entry |-> cached,
                 cache |-> cache]

\* memoryCache.storeOverallRecommendation at time t
storeOverallRecommendation(cache, userId, recommendations, orderCount, t) ==
  [cache EXCEPT !.userOverallRecommendations =
     (userId :> [recommendations |-> recommendations, timestamp |-> t,
                 orderCount |-> orderCount]) @@ @]

\* a cache whose overall lookup does not compare the order count
getOverallRecommendation_AnyCount(cache, userId, currentOrderCount, t) ==
  IF userId \notin DOMAIN cache.userOverallRecommendations
  THEN [hit |-> FALSE, expired |-> FALSE,
        entry |-> [timestamp |-> 0, orderCount |-> 0], cache |-> cache]
  ELSE LET cached == cache.userOverallRecommendations[userId]
       IN  IF t - cached.timestamp > CACHE_TTL
           THEN [hit |-> FALSE, expired |-> TRUE, entry |-> cached,
                 cache |-> [cache EXCEPT !.userOverallRecommendations =
                                           MapDelete(@, userId)]]
           ELSE [hit |-> TRUE, expired |-> FALSE, entry |-> cached,
                 cache |-> cache]

\* memoryCache.getOverallRecommendation at time t
getOverallRecommendation(cache, userId, currentOrderCount, t) ==
  IF userId \notin DOMAIN cache.userOverallRecommendations
  THEN [hit |-> FALSE, expired |-> FALSE,
        entry |-> [timestamp |-> 0, orderCount |-> 0], cache |-> cache]
  ELSE LET cached == cache.userOverallRecommendations[userId]
       IN  IF \/ t - cached.timestamp > CACHE_TTL
              \/ cached.orderCount # currentOrderCount
           THEN [hit |-> FALSE, expired |-> TRUE, entry |-> cached,
                 cache |-> [cache EXCEPT !.userOverallRecommendations =
                                           MapDelete(@, userId)]]
           ELSE [hit |-> TRUE, expired |-> FALSE, entry |-> cached,
                 cache |-> cache]

\* memoryCache.cleanExpiredEntries at time t
cleanExpiredEntries(cache, t) ==
  [orderRecommendations |->
     [k \in { x \in DOMAIN cache.orderRecommendations :
                ~ (t - cache.orderRecommendations[x].timestamp > CACHE_TTL) }
        |-> cache.orderRecommendations[k]],
   userOverallRecommendations |->
     [k \in { x \in DOMAIN cache.userOverallRecommendations :
                ~ (t - cache.userOverallRecommendations[x].timestamp
                     > CACHE_TTL) }
        |-> cache.userOverallRecommendations[k]]]

\* the emissionImpact getFallbackRecommendations gives an item
FallbackImpact(item) ==
  IF item.category = "non-veg" THEN "high"
  ELSE IF item.category = "veg" THEN "low" ELSE "medium"

\* AIService.getFallbackRecommendations: the fixed overall part (3 tips) and
\* one entry for each item of the order
getFallbackRecommendations(order) ==
  [kind |-> "fallback",
   overallTips |-> 3,
   items |-> [i \in 1..Len(order.items) |->
                [itemName |-> order.items[i].name,
                 emissionImpact |-> FallbackImpact(order.items[i]),
                 alternatives |->
                   IF order.items[i].category = "non-veg" THEN 2 ELSE 0,
                 tips |->
                   IF order.items[i].category \in {"non-veg", "veg"}
                   THEN 1 ELSE 0]]]

\* AIService.getFallbackOverallRecommendations: a fixed message and 4 tips
getFallbackOverallRecommendations == [kind |-> "fallbackOverall", tips |-> 4]

\* JSON.parse(response.choices[0].message.content) of an answer of the model
AiAnswer == [kind |-> "ai"]

\* Recommendation.findOne for an order
FindOrderDoc(db, order) ==
  { d \in db : /\ d.recommendationId = order.id
               /\ d.type = "order"
               /\ d.user = order.user }

\* Recommendation.findOne for the overall recommendations of a user
FindOverallDoc(db, userId, orderCount) ==
  { d \in db : /\ d.recommendationId = "overall_" \o userId
               /\ d.type = "overall"
               /\ d.user = userId
               /\ d.orderCount = orderCount }

\* Recommendation.findOneAndUpdate({recommendationId}, doc, {upsert: true})
Upsert(db, doc) ==
  { d \in db : d.recommendationId # doc.recommendationId } \cup {doc}

\* an order object without _id: order._id.toString() throws a TypeError
NoId == "undefined"

\* the catch block of the two functions
AiFallback(a) ==
  [a EXCEPT !.pc = "done",
            !.result = IF a.fn = "getOrderRecommendations"
                       THEN getFallbackRecommendations(a.order)
                       ELSE getFallbackOverallRecommendations]

\* getOrderRecommendations up to its first await
BeginOrderRecommendations(order) ==
  LET g == getOrderRecommendation(memoryCache, order.id, now)
      a == [IdleAi EXCEPT !.fn = "getOrderRecommendations", !.order = order,
                          !.userId = order.user]
  IN  IF order.id = NoId
      THEN [memoryCache |-> memoryCache, ai |-> AiFallback(a)]
      ELSE
      [memoryCache |-> g.cache,
       ai |-> IF g.hit
              THEN [a EXCEPT !.pc = "done",
                             !.result = g.entry.recommendations,
                             !.served = [from |-> "memory", entry |-> g.entry,
                                         at |-> now]]
              ELSE [a EXCEPT !.pc = "awaitFindOne",
                             !.served = [from |-> IF g.expired THEN "expired"
                                                  ELSE "none",
                                         entry |-> g.entry, at |-> now]]]

\* getOverallRecommendations up to its first await
BeginOverallRecommendations(userId, orderCount) ==
  LET g == getOverallRecommendation(memoryCache, userId, orderCount, now)
      a == [IdleAi EXCEPT !.fn = "getOverallRecommendations",
                          !.userId = userId, !.orderCount = orderCount]
  IN  [memoryCache |-> g.cache,
       ai |-> IF g.hit
              THEN [a EXCEPT !.pc = "done",
                             !.result = g.entry.recommendations,
                             !.served = [from |-> "memory", entry |-> g.entry,
                                         at |-> now]]
              ELSE [a EXCEPT !.pc = "awaitFindOne",
                             !.served = [from |-> IF g.expired THEN "expired"
                                                  ELSE "none",
                                         entry |-> g.entry, at |-> now]]]

\* the answer of Recommendation.findOne: a failure, or the matching document
FindOneResponds(ok) ==
  /\ ai.pc = "awaitFindOne"
  /\ LET found == IF ai.fn = "getOrderRecommendations"
                  THEN FindOrderDoc(recommendationDb, ai.order)
                  ELSE FindOverallDoc(recommendationDb, ai.userId,
                                      ai.orderCount)
     IN  IF ~ok
         THEN /\ ai' = AiFallback(ai)
              /\ UNCHANGED memoryCache
         ELSE IF found # {}
         THEN LET cachedInDB == CHOOSE d \in found : TRUE
              IN  /\ memoryCache' =
                       IF ai.fn = "getOrderRecommendations"
                       THEN storeOrderRecommendation(
                              memoryCache, ai.order.id, cachedInDB.data, now)
                       ELSE storeOverallRecommendation(
                              memoryCache, ai.userId, cachedInDB.data,
                              ai.orderCount, now)
                  /\ ai' = [ai EXCEPT !.pc = "done",
                                      !.result = cachedInDB.data,
                                      !.stored = TRUE,
                                      !.served = [from |-> "db",
                                                  entry |-> cachedInDB,
                                                  at |-> now]]
         ELSE /\ ai' = [ai EXCEPT !.pc = "awaitAI"]
              /\ UNCHANGED memoryCache
  /\ UNCHANGED << cfe, gtd, lastResponse, direct, inv, tables,
                  recommendationDb, now, routeVars >>

\* an engine that lets the SyntaxError of JSON.parse reject the call
AiResponds_ParseErrorRejects(outcome) ==
  /\ ai.pc = "awaitAI"
  /\ IF outcome = "badJson"
     THEN /\ ai' = [ai EXCEPT !.pc = "threw"]
          /\ UNCHANGED memoryCache
     ELSE IF outcome = "error"
     THEN /\ ai' = AiFallback(ai)
          /\ UNCHANGED memoryCache
     ELSE /\ memoryCache' =
               IF ai.fn = "getOrderRecommendations"
               THEN storeOrderRecommendation(
                      memoryCache, ai.order.id, AiAnswer, now)
               ELSE storeOverallRecommendation(
                      memoryCache, ai.userId, AiAnswer, ai.orderCount, now)
          /\ ai' = [ai EXCEPT !.pc = "awaitUpdate",
                              !.recommendations = AiAnswer,
                              !.stored = TRUE]
  /\ UNCHANGED << cfe, gtd, lastResponse, direct, inv, tables,
                  recommendationDb, now, routeVars >>

\* the answer of openai.chat.completions.create: a failed request, a content
\* that is no JSON, or a JSON object
AiResponds(outcome) ==
  /\ ai.pc = "awaitAI"
  /\ IF outcome \in {"error", "badJson"}
     THEN /\ ai' = AiFallback(ai)
          /\ UNCHANGED memoryCache
     ELSE /\ memoryCache' =
               IF ai.fn = "getOrderRecommendations"
               THEN storeOrderRecommendation(
                      memoryCache, ai.order.id, AiAnswer, now)
               ELSE storeOverallRecommendation(
                      memoryCache, ai.userId, AiAnswer, ai.orderCount, now)
          /\ ai' = [ai EXCEPT !.pc = "awaitUpdate",
                              !.recommendations = AiAnswer,
                              !.stored = TRUE]
  /\ UNCHANGED << cfe, gtd, lastResponse, direct, inv, tables,
                  recommendationDb, now, routeVars >>

\* the answer of Recommendation.findOneAndUpdate
UpdateResponds(ok) ==
  /\ ai.pc = "awaitUpdate"
  /\ IF ok
     THEN /\ recommendationDb' =
               Upsert(recommendationDb,
                      IF ai.fn = "getOrderRecommendations"
                      THEN [recommendationId |-> ai.order.id,
                            type |-> "order", user |-> ai.order.user,
                            orderCount |-> 0, data |-> ai.recommendations]
                      ELSE [recommendationId |-> "overall_" \o ai.userId,
                            type |-> "overall", user |-> ai.userId,
                            orderCount |-> ai.orderCount,
                            data |-> ai.recommendations])
          /\ ai' = [ai EXCEPT !.pc = "done", !.result = ai.recommendations]
     ELSE /\ ai' = AiFallback(ai)
          /\ UNCHANGED recommendationDb
  /\ UNCHANGED << cfe, gtd, lastResponse, direct, inv, tables,
                  memoryCache, now, routeVars >>

\* the order documents handed to getOrderRecommendations
AiOrderInputs ==
  { o \in InitialOrders : o.id = "o1" }
    \cup {OrderDoc(NoId, "u1", "z0", << >>)}

MaxOrderCount == 2

\* a caller of AIService.getOrderRecommendations
CallGetOrderRecommendations(order) ==
  /\ ai.pc = "idle"
  /\ req.pc = "idle"
  /\ LET b == BeginOrderRecommendations(order)
     IN  ai' = b.ai /\ memoryCache' = b.memoryCache
  /\ UNCHANGED << cfe, gtd, lastResponse, direct, inv, tables,
                  recommendationDb, now, routeVars >>

\* a caller of AIService.getOverallRecommendations; orderCount is
\* orders.length
CallGetOverallRecommendations(userId, orderCount) ==
  /\ ai.pc = "idle"
  /\ req.pc = "idle"
  /\ LET b == BeginOverallRecommendations(userId, orderCount)
     IN  ai' = b.ai /\ memoryCache' = b.memoryCache
  /\ UNCHANGED << cfe, gtd, lastResponse, direct, inv, tables,
                  recommendationDb, now, routeVars >>

\* the caller takes the recommendations
CompleteAi ==
  /\ ai.pc = "done"
  /\ req.pc = "idle"
  /\ ai' = IdleAi
  /\ UNCHANGED << cfe, gtd, lastResponse, direct, inv, tables,
                  memoryCache, recommendationDb, now, routeVars >>

\* the callback of setInterval
CleanExpiredEntries ==
  /\ memoryCache' = cleanExpiredEntries(memoryCache, now)
  /\ UNCHANGED << cfe, gtd, lastResponse, direct, inv, tables,
                  ai, recommendationDb, now, routeVars >>

\* 15 minutes pass
Tick ==
  /\ now < MaxTime
  /\ now' = now + 1
  /\ UNCHANGED << cfe, gtd, lastResponse, direct, inv, tables,
                  ai, memoryCache, recommendationDb, routeVars >>

NextAi ==
  \/ \E o \in AiOrderInputs : CallGetOrderRecommendations(o)
  \/ \E u \in {"u1"}, n \in 1..MaxOrderCount :
       CallGetOverallRecommendations(u, n)
  \/ \E ok \in BOOLEAN : FindOneResponds(ok)
  \/ \E o \in {"error", "badJson", "ok"} : AiResponds(o)
  \/ \E ok \in BOOLEAN : UpdateResponds(ok)
  \/ CompleteAi
  \/ CleanExpiredEntries
  \/ Tick

SpecAi == Init /\ [][NextAi]_vars

(***************************************************************************)
(* middleware/auth.js and routes/orders.js: GET /:id, DELETE /:id,         *)
(* GET /:orderId/recommendations and POST /zomato/fetch                    *)
(***************************************************************************)

\* a token whose signature does not verify, claiming user u1
InvalidToken == [kind |-> "invalid", id |-> "u1"]

\* jwt.sign({id: u}, JWT_SECRET)
SignedToken(u) == [kind |-> "signed", id |-> u]

\* the tokens of requests: u3 is the id of no stored user
Tokens == {NoToken, InvalidToken} \cup { SignedToken(u) : u \in {"u1", "u2", "u3"} }

\* jwt.verify(token, JWT_SECRET): the decoded payload, or a thrown error
JwtVerify(token) ==
  IF token.kind = "signed" THEN [ok |-> TRUE, id |-> token.id]
  ELSE [ok |-> FALSE, id |-> ""]

IdRoutes == {"GET /:id", "DELETE /:id", "GET /:orderId/recommendations"}

MaxCreated == 2

\* the _id of the n-th document created
NewId(n) == IF n = 1 THEN "n1" ELSE IF n = 2 THEN "n2"
            ELSE IF n = 3 THEN "n3" ELSE "n4"

\* the :id parameters of requests
IdParams == {"o1", "o2", "n1", "missing"}

\* an element of ordersData: null, an order without resInfo, an order
\* without totalCost, and a complete order
OrderDataKinds ==
  {[kind |-> "null", orderId |-> ""],
   [kind |-> "missingFields", orderId |-> "z1"],
   [kind |-> "noTotalCost", orderId |-> "z1"],
   [kind |-> "complete", orderId |-> "z1"]}

MaxBatch == 2

\* req.body.ordersData: absent, an object without entities.ORDER, an array
OrdersDataInputs ==
  {[t |-> "undefined"], [t |-> "object"]}
    \cup { [t |-> "array", v |-> v] :
             v \in UNION { [1..n -> OrderDataKinds] : n \in 0..MaxBatch } }

\* the number of complete orders of an array
CompleteCount(v) ==
  Cardinality({ i \in 1..Len(v) : v[i].kind = "complete" })

\* res.status(status).json(body)
Respond(r, status, body) ==
  [r EXCEPT !.pc = "responded", !.status = status, !.body = body]

Message(m) == [kind |-> "message", message |-> m]

\* auth up to await User.findById: no token and a token that does not
\* verify are answered 401 at once
AuthBegin(r) ==
  IF r.token.kind = "none"
  THEN Respond(r, 401, Message("No token, authorization denied"))
  ELSE IF ~ JwtVerify(r.token).ok
  THEN Respond(r, 401, Message("Invalid token"))
  ELSE [r EXCEPT !.pc = "awaitUser"]

\* a request arrives at one of the routes /:id
ReceiveId(route, token, id) ==
  /\ req.pc = "idle"
  /\ ai.pc = "idle"
  /\ req' = AuthBegin([IdleReq EXCEPT !.route = route, !.token = token,
                                      !.id = id])
  /\ UNCHANGED << cfe, gtd, lastResponse, direct, inv, tables, aiVars,
                  users, orders, batch >>

\* a request arrives at POST /zomato/fetch
ReceiveZomatoFetch(token, ordersData) ==
  /\ req.pc = "idle"
  /\ ai.pc = "idle"
  /\ ordersData.t = "array" =>
       batch.created + CompleteCount(ordersData.v) <= MaxCreated
  /\ req' = AuthBegin([IdleReq EXCEPT !.route = "POST /zomato/fetch",
                                      !.token = token,
                                      !.ordersData = ordersData])
  /\ UNCHANGED << cfe, gtd, lastResponse, direct, inv, tables, aiVars,
                  users, orders, batch >>

\* the handler of POST /zomato/fetch up to its loop
ZomatoFetchBegin(r) ==
  IF r.ordersData.t = "undefined"
  THEN [req |-> Respond(r, 400, [kind |-> "batch", success |-> FALSE,
                                 message |-> "No orders data provided"]),
        ordersArray |-> << >>]
  ELSE IF r.ordersData.t # "array"
  THEN [req |-> Respond(r, 400, [kind |-> "batch", success |-> FALSE,
                                 message |-> "Invalid data format"]),
        ordersArray |-> << >>]
  ELSE IF Len(r.ordersData.v) = 0
  THEN [req |-> Respond(r, 400,
                        [kind |-> "batch", success |-> FALSE,
                         message |-> "No orders found in the provided data"]),
        ordersArray |-> << >>]
  ELSE [req |-> [r EXCEPT !.pc = "loop"], ordersArray |-> r.ordersData.v]

\* the answer of User.findById in auth; on success next() runs the handler
\* up to its first await
AuthUserResponds(ok) ==
  /\ req.pc = "awaitUser"
  /\ LET id == JwtVerify(req.token).id
         r == [req EXCEPT !.user = id, !.handler = TRUE]
     IN  IF ~ok
         THEN /\ req' = Respond(req, 401, Message("Invalid token"))
              /\ UNCHANGED batch
         ELSE IF id \notin users
         THEN /\ req' = Respond(req, 401, Message("User not found"))
              /\ UNCHANGED batch
         ELSE IF req.route \in IdRoutes
         THEN /\ req' = [r EXCEPT !.pc = "awaitOrder"]
              /\ UNCHANGED batch
         ELSE LET b == ZomatoFetchBegin(r)
              IN  /\ req' = b.req
                  /\ batch' = [IdleBatch EXCEPT
                                 !.ordersArray = b.ordersArray,
                                 !.created = batch.created]
  /\ UNCHANGED << cfe, gtd, lastResponse, direct, inv, tables, aiVars,
                  users, orders >>

\* Order.findOne({_id, user}) and Order.findOneAndDelete({_id, user})
FindOrder(id, user) == { o \in orders : o.id = id /\ o.user = user }

\* handlers whose query selects by _id alone
OrderResponds_AnyOwner(ok) ==
  /\ req.pc = "awaitOrder"
  /\ LET found == { o \in orders : o.id = req.id }
     IN  IF ~ok
         THEN /\ req' = Respond(req, 500, Message("error"))
              /\ UNCHANGED << orders, ai, memoryCache >>
         ELSE IF found = {}
         THEN /\ req' = Respond(req, 404, Message("Order not found"))
              /\ UNCHANGED << orders, ai, memoryCache >>
         ELSE LET order == CHOOSE o \in found : TRUE
                  r == [req EXCEPT !.order = order]
              IN  IF req.route = "GET /:id"
                  THEN /\ req' = Respond(r, 200, [kind |-> "order",
                                                  order |-> order])
                       /\ UNCHANGED << orders, ai, memoryCache >>
                  ELSE IF req.route = "DELETE /:id"
                  THEN /\ orders' = orders \ {order}
                       /\ req' = Respond(r, 200,
                                    Message("Order deleted successfully"))
                       /\ UNCHANGED << ai, memoryCache >>
                  ELSE LET b == BeginOrderRecommendations(order)
                       IN  /\ ai' = b.ai
                           /\ memoryCache' = b.memoryCache
                           /\ req' = [r EXCEPT !.pc = "awaitRecommendations"]
                           /\ UNCHANGED orders
  /\ UNCHANGED << cfe, gtd, lastResponse, direct, inv, tables,
                  recommendationDb, now, users, batch >>

\* the answer of the order query of the three routes /:id: a failure, no
\* document, or the document, which DELETE has removed
OrderResponds(ok) ==
  /\ req.pc = "awaitOrder"
  /\ LET found == FindOrder(req.id, req.user)
     IN  IF ~ok
         THEN /\ req' = Respond(req, 500, Message("error"))
              /\ UNCHANGED << orders, ai, memoryCache >>
         ELSE IF found = {}
         THEN /\ req' = Respond(req, 404, Message("Order not found"))
              /\ UNCHANGED << orders, ai, memoryCache >>
         ELSE LET order == CHOOSE o \in found : TRUE
                  r == [req EXCEPT !.order = order]
              IN  IF req.route = "GET /:id"
                  THEN /\ req' = Respond(r, 200, [kind |-> "order",
                                                  order |-> order])
                       /\ UNCHANGED << orders, ai, memoryCache >>
                  ELSE IF req.route = "DELETE /:id"
                  THEN /\ orders' = orders \ {order}
                       /\ req' = Respond(r, 200,
                                    Message("Order deleted successfully"))
                       /\ UNCHANGED << ai, memoryCache >>
                  ELSE LET b == BeginOrderRecommendations(order)
                       IN  /\ ai' = b.ai
                           /\ memoryCache' = b.memoryCache
                           /\ req' = [r EXCEPT !.pc = "awaitRecommendations"]
                           /\ UNCHANGED orders
  /\ UNCHANGED << cfe, gtd, lastResponse, direct, inv, tables,
                  recommendationDb, now, users, batch >>

\* AIService.getOrderRecommendations has resolved: GET
\* /:orderId/recommendations answers
RecommendationsReturn ==
  /\ req.pc = "awaitRecommendations"
  /\ ai.pc = "done"
  /\ req' = Respond(req, 200, [kind |-> "recommendations",
                               order |-> req.order.id,
                               recommendations |-> ai.result])
  /\ ai' = IdleAi
  /\ UNCHANGED << cfe, gtd, lastResponse, direct, inv, tables,
                  memoryCache, recommendationDb, now, users, orders, batch >>

\* the items of the dishString of an imported order
ImportedItems == <<[name |-> "Paneer Tikka", category |-> "undefined"]>>

\* a loop that has no try block around one order
ProcessZomatoOrder_ErrorAborts(emissionOk, saveOk) ==
  /\ req.pc = "loop"
  /\ batch.i < Len(batch.ordersArray)
  /\ LET orderData == batch.ordersArray[batch.i + 1]
         b == [batch EXCEPT !.i = @ + 1]
         duplicate == \E o \in orders : /\ o.user = req.user
                                        /\ o.orderId = orderData.orderId
         order == OrderDoc(NewId(batch.created + 1), req.user,
                           orderData.orderId, ImportedItems)
     IN  IF orderData.kind = "missingFields"
         THEN /\ batch' = [b EXCEPT !.errors =
                             Append(@, "Order " \o orderData.orderId
                                         \o " missing required fields")]
              /\ UNCHANGED << orders, req >>
         ELSE IF \/ orderData.kind \in {"null", "noTotalCost"}
                 \/ duplicate
                 \/ ~saveOk
         THEN /\ req' = Respond(req, 500,
                                [kind |-> "batch", success |-> FALSE,
                                 message |-> "Error processing Zomato orders"])
              /\ batch' = b
              /\ UNCHANGED orders
         ELSE /\ orders' = orders \cup {order}
              /\ batch' = [b EXCEPT !.processedOrders = Append(@, order),
                                    !.created = @ + 1]
              /\ UNCHANGED req
  /\ UNCHANGED << cfe, gtd, lastResponse, direct, inv, tables, aiVars,
                  users >>

\* one pass of the loop of POST /zomato/fetch: emissionOk tells whether
\* getTravelDistanceKm and calculateFoodEmission resolved (their error is
\* swallowed), saveOk whether order.save() resolved; a second order of the
\* same user and orderId fails on the unique index
ProcessZomatoOrder(emissionOk, saveOk) ==
  /\ req.pc = "loop"
  /\ batch.i < Len(batch.ordersArray)
  /\ LET orderData == batch.ordersArray[batch.i + 1]
         b == [batch EXCEPT !.i = @ + 1]
         duplicate == \E o \in orders : /\ o.user = req.user
                                        /\ o.orderId = orderData.orderId
         order == OrderDoc(NewId(batch.created + 1), req.user,
                           orderData.orderId, ImportedItems)
     IN  IF orderData.kind = "missingFields"
         THEN /\ batch' = [b EXCEPT !.errors =
                             Append(@, "Order " \o orderData.orderId
                                         \o " missing required fields")]
              /\ UNCHANGED orders
         ELSE IF \/ orderData.kind \in {"null", "noTotalCost"}
                 \/ duplicate
                 \/ ~saveOk
         THEN /\ batch' = [b EXCEPT !.errors =
                             Append(@, "Error processing order: "
                                         \o orderData.kind)]
              /\ UNCHANGED orders
         ELSE /\ orders' = orders \cup {order}
              /\ batch' = [b EXCEPT !.processedOrders = Append(@, order),
                                    !.created = @ + 1]
  /\ UNCHANGED << cfe, gtd, lastResponse, direct, inv, tables, aiVars,
                  users, req >>

\* the response of POST /zomato/fetch after the loop
ZomatoFetchResponds ==
  /\ req.pc = "loop"
  /\ batch.i = Len(batch.ordersArray)
  /\ req' = Respond(req, 200,
                    [kind |-> "batch", success |-> TRUE,
                     orders |-> batch.processedOrders,
                     errors |-> IF Len(batch.errors) > 0
                                THEN [t |-> "array", v |-> batch.errors]
                                ELSE [t |-> "undefined"]])
  /\ UNCHANGED << cfe, gtd, lastResponse, direct, inv, tables, aiVars,
                  users, orders, batch >>

\* the response has been sent
CompleteReq ==
  /\ req.pc = "responded"
  /\ req' = IdleReq
  /\ batch' = [IdleBatch EXCEPT !.created = batch.created]
  /\ UNCHANGED << cfe, gtd, lastResponse, direct, inv, tables, aiVars,
                  users, orders >>

NextRoutes ==
  \/ \E route \in IdRoutes, token \in Tokens, id \in IdParams :
       ReceiveId(route, token, id)
  \/ \E token \in Tokens, ordersData \in OrdersDataInputs :
       ReceiveZomatoFetch(token, ordersData)
  \/ \E ok \in BOOLEAN : AuthUserResponds(ok)
  \/ \E ok \in BOOLEAN : OrderResponds(ok)
  \/ \E ok \in BOOLEAN : FindOneResponds(ok)
  \/ \E o \in {"error", "badJson", "ok"} : AiResponds(o)
  \/ \E ok \in BOOLEAN : UpdateResponds(ok)
  \/ RecommendationsReturn
  \/ \E emissionOk \in BOOLEAN, saveOk \in BOOLEAN :
       ProcessZomatoOrder(emissionOk, saveOk)
  \/ ZomatoFetchResponds
  \/ CompleteReq

SpecRoutes == Init /\ [][NextRoutes]_vars

(***************************************************************************)
(* Properties                                                              *)
(***************************************************************************)

Abs(n) == IF n < 0 THEN -n ELSE n

RECURSIVE SumPercentages(_, _)
SumPercentages(ings, ks) ==
  IF ks = {} THEN 0
  ELSE LET k == CHOOSE x \in ks : TRUE
       IN  ings[k].percentage + SumPercentages(ings, ks \ {k})

\* C1: every returned result has total = food + packaging + travel within
\* 0.01, the four read as their 2-decimal formatted values.
C1_TotalIsSum ==
  cfe.pc = "done" =>
    LET r == cfe.result
    IN  /\ IsNum(r.total) /\ IsNum(r.food)
        /\ IsNum(r.packaging) /\ IsNum(r.travel)
        /\ Abs(r.total.v - (r.food.v + r.packaging.v + r.travel.v)) <= 1

\* C2: in every result with a non-empty ingredient breakdown and a food
\* emission above 0 the ingredient percentages sum to 100 within 0.5.
C2_PercentagesSumTo100 ==
  (cfe.pc = "done" /\ Keys(cfe.result.ingredients) # {}
     /\ cfe.totalFoodEmission > 0) =>
    Abs(SumPercentages(cfe.result.ingredients, Keys(cfe.result.ingredients))
        - 1000) <= 5

\* C3: the ingredient map used for a dish is never empty, whatever the dish
\* name and whatever the recipe lookup answers.
C3_IngredientMapNeverEmpty ==
  \A i \in 1..Len(cfe.dishDetails) :
    Keys(cfe.dishDetails[i].ingredients) # {}

\* C4: calculateFoodEmission and getTravelDistanceKm never throw or reject.
C4_NoExceptionEscapes ==
  cfe.pc # "threw" /\ gtd.pc # "threw"

\* the call of getTravelDistanceKm got a route from the router
RouteSucceeded ==
  lastResponse.api = "route" /\ lastResponse.outcome = "ok"

\* C5: getTravelDistanceKm returns 5 km and no error when the origin address
\* or the destination is missing, when geocoding gives nothing or fails and
\* when routing fails; it returns the routed distance when geocoding and
\* routing both succeed.
C5_TravelFallbackDistance ==
  /\ gtd.pc # "threw"
  /\ gtd.pc = "done" =>
       /\ gtd.error = ""
       /\ (gtd.originAddress = "" \/ gtd.destCoords.t = "null")
            => gtd.result.distance = 5000
       /\ (lastResponse.api = "none" \/ lastResponse.api = "geocode")
            => gtd.result.distance = 5000
       /\ (lastResponse.api = "route" /\ lastResponse.outcome = "error")
            => gtd.result.distance = 5000
       /\ RouteSucceeded => gtd.result.distance = lastResponse.value
       /\ gtd.result.distance # 5000 => RouteSucceeded

\* geocoding succeeded, routing failed and the call returned 5 km
C5_Witness ==
  /\ gtd.pc = "done"
  /\ lastResponse.api = "route" /\ lastResponse.outcome = "error"
  /\ gtd.result.distance = 5000

\* C6: the emissionFactor getTravelDistanceKm returns is the table entry of
\* the requested transport type whenever the type is in the table (walking
\* included), and the default type's factor otherwise.
C6_EmissionFactorOfRequestedType ==
  gtd.pc = "done" =>
    gtd.result.emissionFactor =
      IF gtd.transportType \in DOMAIN TRAVEL_EMISSIONS
      THEN Num(TRAVEL_EMISSIONS[gtd.transportType])
      ELSE Num(TRAVEL_EMISSIONS[DEFAULT_TRANSPORT])

\* C7: the travel emission, the travel distance and the total of every
\* result are defined numbers, never undefined or NaN.
C7_TravelNumbersDefined ==
  cfe.pc = "done" =>
    /\ cfe.result.travel.t = "number"
    /\ cfe.result.travelDistance.t = "number"
    /\ cfe.result.total.t = "number"

\* the dish names the recipe lookup was invoked for
LookedUp == { cfe.lookups[j] : j \in 1..Len(cfe.lookups) }

\* C8: a line whose dish name is a key of the Recipe Table uses exactly the
\* table's composition and the recipe lookup is never invoked for it; the
\* lookup is invoked only for names absent from the table.
C8_KnownDishUsesTable ==
  /\ \A i \in 1..Len(cfe.dishDetails) :
       LET d == cfe.dishDetails[i]
       IN  d.name \in DOMAIN RECIPE_DB =>
             d.ingredients = RECIPE_DB[d.name] /\ d.name \notin LookedUp
  /\ \A n \in LookedUp : n \notin DOMAIN RECIPE_DB
  /\ cfe.pc \in {"awaitSearch", "awaitDetails"} =>
       cfe.dishName \notin DOMAIN RECIPE_DB

\* an order with a table dish and a looked-up dish has been computed
C8_Witness ==
  /\ cfe.pc = "done"
  /\ LookedUp # {}
  /\ \E i \in 1..Len(cfe.dishDetails) :
       /\ cfe.dishDetails[i].name = "dal fry"
       /\ cfe.dishDetails[i].ingredients = RECIPE_DB["dal fry"]

\* the recipe lookup of the dish in progress has just failed
LookupFailed ==
  /\ cfe.pc \in {"awaitSearch", "awaitDetails"}
  /\ lastResponse'.api \in {"search", "details"}
  /\ lastResponse'.outcome \in {"error", "noResults"}

\* C9: when the recipe lookup of a dish absent from the table errors or
\* finds no recipe, the dish gets the heuristic estimator's non-empty
\* composition for its name and the failure does not reach the caller.
C9_LookupFailureFallsBack ==
  [][LookupFailed =>
       LET n == Len(cfe.dishDetails)
       IN  /\ cfe.dishName \notin DOMAIN RECIPE_DB
           /\ Len(cfe'.dishDetails) > n
           /\ cfe'.dishDetails[n + 1].name = cfe.dishName
           /\ cfe'.dishDetails[n + 1].ingredients
                = estimateDishIngredients(cfe.dishName)
           /\ Keys(cfe'.dishDetails[n + 1].ingredients) # {}
           /\ cfe'.error # "LookupError"]_vars

\* a failed search was answered with the estimator's composition
C9_Witness ==
  /\ lastResponse.api = "search" /\ lastResponse.outcome = "error"
  /\ \E i \in 1..Len(cfe.dishDetails) :
       /\ cfe.dishDetails[i].name = "mystery bowl"
       /\ cfe.dishDetails[i].ingredients
            = estimateDishIngredients("mystery bowl")

\* a clause of the form <integer> x <dish name>: digits, " x ", a name
WellFormed(item) ==
  \E e \in 1..(Len(item) - 4) :
    /\ \A j \in 1..e : IsDigit(CharAt(item, j))
    /\ SubSeq(item, e + 1, e + 3) = " x "

\* the order line a well-formed clause denotes
OrderLineOf(item) ==
  LET e == CHOOSE e \in 1..(Len(item) - 4) :
             /\ \A j \in 1..e : IsDigit(CharAt(item, j))
             /\ SubSeq(item, e + 1, e + 3) = " x "
  IN  [count |-> ParseInt(SubSeq(item, 1, e)),
       name |-> Trim(SubSeq(item, e + 4, Len(item)))]

RECURSIVE OrderLinesOf(_)
\* the order lines of the well-formed clauses, in input order
OrderLinesOf(items) ==
  IF items = << >> THEN << >>
  ELSE (IF WellFormed(Head(items)) THEN << OrderLineOf(Head(items)) >>
        ELSE << >>) \o OrderLinesOf(Tail(items))

\* C10: the dishes processed are exactly the clauses of the form
\* <integer> x <dish name>, in input order, with their count and trimmed
\* lower-cased name; other clauses are skipped without raising and a string
\* without such a clause gives food emission 0 and no dishes.
C10_ParsesWellFormedClauses ==
  (cfe.pc = "done" /\ cfe.dishString # "") =>
    LET lines == OrderLinesOf(ParseDishes(cfe.dishString))
    IN  /\ Len(cfe.result.dishes) = Len(lines)
        /\ \A i \in 1..Len(lines) :
             /\ cfe.result.dishes[i].count = lines[i].count
             /\ cfe.result.dishes[i].name = lines[i].name
        /\ lines = << >> =>
             cfe.result.food = Num(0) /\ cfe.result.dishes = << >>

\* C11: every order line the parser produces has a count of at least 1.
C11_CountIsPositive ==
  \A i \in 1..Len(cfe.dishDetails) : cfe.dishDetails[i].count >= 1

CategoryOrder ==
  <<"meat", "seafood", "dairy", "grains", "pulses", "oil", "spices", "nuts",
    "beverages", "processed">>

CategoryKeywords ==
  ("meat" :> {"meat", "beef", "lamb", "pork", "veal"}) @@
  ("seafood" :> {"fish", "prawn", "shrimp", "salmon", "seafood"}) @@
  ("dairy" :> {"milk", "cream", "cheese", "curd", "yogurt", "butter", "ghee"}) @@
  ("grains" :> {"flour", "bread", "roti", "naan", "rice", "cereal", "grain",
                "pasta"}) @@
  ("pulses" :> {"chickpeas", "lentils", "dal", "beans", "peas"}) @@
  ("oil" :> {"oil", "fat", "ghee"}) @@
  ("spices" :> {"spice", "masala", "powder", "sauce", "paste", "extract"}) @@
  ("nuts" :> {"nut", "almond", "cashew", "seed"}) @@
  ("beverages" :> {"drink", "juice", "tea", "coffee"}) @@
  ("processed" :> {"processed", "frozen", "ready", "instant"})

\* the positions in CategoryOrder of the categories a name has a keyword of
MatchingCategories(name) ==
  { i \in 1..Len(CategoryOrder) :
      \E kw \in CategoryKeywords[CategoryOrder[i]] :
        Includes(ToLowerCase(name), kw) }

FirstCategory(name) ==
  IF MatchingCategories(name) = {} THEN "vegetables"
  ELSE CategoryOrder[CHOOSE i \in MatchingCategories(name) :
                       \A j \in MatchingCategories(name) : i <= j]

NormalizedFactorOf(ingredient) ==
  IF ingredient \in DOMAIN INGREDIENT_NORMALIZATION
  THEN FOOD_EMISSIONS_DB[INGREDIENT_NORMALIZATION[ingredient]]
  ELSE EmissionFactorOf(ingredient)

RECURSIVE NormalizedSumOver(_, _)
NormalizedSumOver(m, ks) ==
  IF ks = {} THEN 0
  ELSE LET k == CHOOSE x \in ks : TRUE
       IN  m[k] * NormalizedFactorOf(k) + NormalizedSumOver(m, ks \ {k})

\* C13: emission factor resolution normalizes the name first: for an
\* ingredient name that is an alias of the normalization table,
\* computeEmissionFromIngredients uses the emission factor of the alias's
\* canonical name, not a category fallback.
C13_AliasUsesCanonicalFactor ==
  (/\ direct.fn = "computeEmissionFromIngredients"
   /\ Keys(direct.ingredients) # {})
    => direct.value
         = NormalizedSumOver(direct.ingredients, Keys(direct.ingredients))

\* the unit factor C14 states, in hundredths: the given type or plastic, the
\* given size or medium
UnitFactorOf(packagingType, packagingSize) ==
  LET type == IF packagingType \in DOMAIN PACKAGING_EMISSIONS
              THEN packagingType ELSE "plastic"
      size == IF packagingSize \in DOMAIN PACKAGING_EMISSIONS[type]
              THEN packagingSize ELSE "medium"
  IN  PACKAGING_EMISSIONS[type][size]

\* C14: calculatePackagingEmissions(n, type, size) is unitFactor * n + 0.05,
\* the unit factor being that of the given type, or of plastic when the type
\* is not in the table, and of the given size, or of medium when the size is
\* not a size of that type; the result is a defined number for every input.
C14_PackagingFormula ==
  direct.fn = "calculatePackagingEmissions"
    => direct.value
         = Num(UnitFactorOf(direct.packagingType, direct.packagingSize)
                 * direct.numberOfDishes + 5)

\* the same on the types and sizes that are no inherited member names
C14_PackagingFormulaOnPlainNames ==
  (/\ direct.fn = "calculatePackagingEmissions"
   /\ direct.packagingType \notin ObjectPrototypeKeys
   /\ direct.packagingSize \notin ObjectPrototypeKeys)
    => direct.value
         = Num(UnitFactorOf(direct.packagingType, direct.packagingSize)
                 * direct.numberOfDishes + 5)

RECURSIVE SumCounts(_)
\* the sum of the counts of the parsed order lines
SumCounts(lines) ==
  IF lines = << >> THEN 0 ELSE Head(lines).count + SumCounts(Tail(lines))

\* the packaging emission C15 states for n dishes of a packaging type, in
\* hundredths: medium up to 2 dishes, large above, the default type for a
\* type that is not in the table
EscalatedPackaging(n, packagingType) ==
  UnitFactorOf(packagingType, IF n > 2 THEN "large" ELSE "medium") * n + 5

\* C15: the packaging emission of calculateFoodEmission is the unit factor of
\* the size (medium up to a total of 2 dishes, large above) times the total
\* dish count, plus the fixed 0.05; for 3 dishes, 3 * large + 0.05.
C15_PackagingFromDishCount ==
  cfe.pc = "done"
    => cfe.result.packaging
         = Num(EscalatedPackaging(SumCounts(cfe.dishDetails),
                                  cfe.packagingType))

\* the same for the packaging types of the table and a dish string that is
\* not empty
C15_PackagingFromDishCountOfKnownType ==
  (/\ cfe.pc = "done"
   /\ cfe.dishString # ""
   /\ cfe.packagingType \in DOMAIN PACKAGING_EMISSIONS)
    => cfe.result.packaging
         = Num(EscalatedPackaging(SumCounts(cfe.dishDetails),
                                  cfe.packagingType))

\* C16: a packaging type that is not in the table falls back to the default
\* type: the packaging emission of the call equals the one the same dish
\* string gets with the type plastic.
C16_UnknownTypeAsPlastic ==
  (/\ cfe.pc = "done"
   /\ cfe.packagingType \notin DOMAIN PACKAGING_EMISSIONS)
    => cfe.result.packaging
         = (IF cfe.dishString = "" THEN Num(0)
            ELSE ToFixed2(PackagingOf(cfe.totalDishCount, "plastic")))

\* C17: for a bare-number travel input d the travel emission is d times the
\* one legacy per-km constant, whether the dish string is empty or not.
C17_FlatFactorForBareNumber ==
  (/\ cfe.pc = "done"
   /\ cfe.travelDetails.t = "number")
    => cfe.result.travel
         = ToFixed2(Num(cfe.travelDetails.v * TRAVEL_EMISSION_PER_KM))

\* a call is waiting for the answer of an external collaborator
Waiting ==
  \/ cfe.pc \in {"awaitSearch", "awaitDetails"}
  \/ gtd.pc \in {"awaitGeocode", "awaitRoute"}

\* C18: no external call stalls the engine for ever: a call that waits for
\* the recipe lookup, the geocoder or the router eventually stops waiting
\* and returns, also when the collaborator never answers.
C18_NoCallWaitsForEver == Waiting ~> ~Waiting

\* C20: the percentage of an ingredient is its full-precision emission
\* (aggregated grams / 1000 * factor) over the total, times 100, formatted
\* to one decimal; the numerator is not rounded to 2 decimals first.
C20_PercentageFromFullPrecision ==
  cfe.pc = "done" =>
    LET all == cfe.allIngredients
        total == SumOver(all, Keys(all))
    IN  \A k \in Keys(cfe.result.ingredients) :
          total > 0 =>
            cfe.result.ingredients[k].percentage
              = RoundDiv(all[k] * EmissionFactorOf(k) * 1000, total)

RECURSIVE Replay(_, _)
\* the frame of an activation that gets the answers one after the other with
\* no other activation in progress
Replay(f, answers) ==
  IF answers = << >> THEN f
  ELSE Replay(IF Head(answers).api = "search"
              THEN AfterSearch(f, Head(answers).outcome)
              ELSE AfterDetails(f, Head(answers).resp),
              Tail(answers))

RunAlone(f, answers) ==
  Replay(Start(f.dishString, f.travelDetails, f.packagingType), answers)

C21_DenominatorIsFoodTotal ==
  cfe.pc = "done"
    => /\ SumOver(cfe.allIngredients, Keys(cfe.allIngredients))
            = cfe.totalFoodEmission
       /\ cfe.result.food
            = Num(FoodToFixed2(SumOver(cfe.allIngredients,
                                       Keys(cfe.allIngredients))))

RECURSIVE SumLines(_)
\* sum over the order lines of count * sum(grams * factor), in 1e-4 kg
SumLines(lines) ==
  IF lines = << >> THEN 0
  ELSE Head(lines).count
         * SumOver(Head(lines).ingredients, Keys(Head(lines).ingredients))
       + SumLines(Tail(lines))

RECURSIVE SumGrams(_, _)
\* sum over the order lines of count * grams of ingredient k per serving
SumGrams(lines, k) ==
  IF lines = << >> THEN 0
  ELSE (IF k \in Keys(Head(lines).ingredients)
        THEN Head(lines).count * Head(lines).ingredients[k] ELSE 0)
       + SumGrams(Tail(lines), k)

\* C22: the food emission is the sum over the order lines of
\* count * sum(grams / 1000 * factor) of the line's ingredient map, and the
\* aggregated amount of an ingredient is the sum over all order lines of
\* count * its grams per serving.
C22_FoodIsSumOverLines ==
  cfe.pc = "done"
    => /\ cfe.totalFoodEmission = SumLines(cfe.dishDetails)
       /\ cfe.result.food = Num(FoodToFixed2(SumLines(cfe.dishDetails)))
       /\ \A k \in Keys(cfe.allIngredients) :
            /\ cfe.allIngredients[k] = SumGrams(cfe.dishDetails, k)
            /\ cfe.result.ingredients[k].amount
                 = 10 * SumGrams(cfe.dishDetails, k)
       /\ \A i \in 1..Len(cfe.dishDetails) :
            Keys(cfe.dishDetails[i].ingredients) \subseteq
              Keys(cfe.allIngredients)

\* the same for the orders all of whose lines have a non-empty ingredient map
C22_FoodIsSumOverNonEmptyLines ==
  (/\ cfe.pc = "done"
   /\ \A i \in 1..Len(cfe.dishDetails) :
        Keys(cfe.dishDetails[i].ingredients) # {})
    => /\ cfe.totalFoodEmission = SumLines(cfe.dishDetails)
       /\ SumOver(cfe.allIngredients, Keys(cfe.allIngredients))
            = cfe.totalFoodEmission
       /\ \A k \in Keys(cfe.allIngredients) :
            cfe.allIngredients[k] = SumGrams(cfe.dishDetails, k)

RECURSIVE SumAmounts(_)
\* the total grams of an ingredient list of the recipe lookup
SumAmounts(list) ==
  IF list = << >> THEN 0 ELSE Head(list).amount + SumAmounts(Tail(list))

RECURSIVE SumValues(_, _)
\* the total grams of the entries ks of an ingredient map
SumValues(m, ks) ==
  IF ks = {} THEN 0
  ELSE LET k == CHOOSE x \in ks : TRUE
       IN  m[k] + SumValues(m, ks \ {k})

\* C25: when the recipe lookup returns several ingredients whose names
\* normalize to the same canonical name, the resolved ingredient map holds
\* the sum of their grams: the total grams of the map is the total grams the
\* lookup returned.
C25_DuplicateNamesAreSummed ==
  [][\A r \in DetailsOutcomes :
       (r.ok /\ DetailsResponds(r)) =>
         LET m == cfe'.dishDetails[Len(cfe.dishDetails) + 1].ingredients
         IN  SumValues(m, Keys(m)) = SumAmounts(r.ingredients)]_vars

\* the dish name has a rice-family keyword together with chicken or murgh
RiceWithChicken(dishName) ==
  /\ \E kw \in {"rice", "biryani", "pulao"} :
       Includes(ToLowerCase(dishName), kw)
  /\ \E kw \in {"chicken", "murgh"} : Includes(ToLowerCase(dishName), kw)

\* C26: for a dish name with a rice-family keyword (rice, biryani, pulao)
\* together with chicken or murgh, the composition the estimator gives the
\* dish is the rice composition with the protein added: it has both rice
\* 150 g and chicken 100 g.
C26_RiceDishGetsProtein ==
  [][(LookupFailed /\ RiceWithChicken(cfe.dishName)) =>
       LET m == cfe'.dishDetails[Len(cfe.dishDetails) + 1].ingredients
       IN  /\ m = estimateDishIngredients(cfe.dishName)
           /\ "rice" \in Keys(m) /\ m["rice"] = 150
           /\ "chicken" \in Keys(m) /\ m["chicken"] = 100]_vars

\* C23: the in-memory cache never serves an entry older than CACHE_TTL: a
\* lookup of getOrderRecommendation or getOverallRecommendation that returns
\* a value returns the stored one and at most CACHE_TTL has passed since it
\* was stored, and a lookup that finds an older entry deletes it and
\* returns null (the call goes on to the database).
C23_NoExpiredEntryServed ==
  [][ /\ \A o \in AiOrderInputs : CallGetOrderRecommendations(o) =>
           LET m == memoryCache.orderRecommendations
           IN  /\ ai'.served.from = "memory" =>
                    /\ o.id \in DOMAIN m
                    /\ now - m[o.id].timestamp <= CACHE_TTL
                    /\ ai'.result = m[o.id].recommendations
               /\ (o.id \in DOMAIN m /\ now - m[o.id].timestamp > CACHE_TTL) =>
                    /\ o.id \notin DOMAIN memoryCache'.orderRecommendations
                    /\ ai'.pc = "awaitFindOne"
      /\ \A u \in {"u1"}, n \in 1..MaxOrderCount :
           CallGetOverallRecommendations(u, n) =>
           LET m == memoryCache.userOverallRecommendations
           IN  /\ ai'.served.from = "memory" =>
                    /\ u \in DOMAIN m
                    /\ now - m[u].timestamp <= CACHE_TTL
                    /\ ai'.result = m[u].recommendations
               /\ (u \in DOMAIN m /\ now - m[u].timestamp > CACHE_TTL) =>
                    /\ u \notin DOMAIN memoryCache'.userOverallRecommendations
                    /\ ai'.pc = "awaitFindOne"
    ]_vars

\* a lookup for an order has found an entry older than CACHE_TTL and has
\* deleted it
C23_Witness ==
  /\ ai.fn = "getOrderRecommendations"
  /\ ai.pc = "awaitFindOne"
  /\ ai.served.from = "expired"
  /\ ai.served.at - ai.served.entry.timestamp > CACHE_TTL
  /\ ai.order.id \notin DOMAIN memoryCache.orderRecommendations

\* the fallback value of the activation
FallbackOf(a) ==
  IF a.fn = "getOrderRecommendations"
  THEN getFallbackRecommendations(a.order)
  ELSE getFallbackOverallRecommendations

\* C24: getOrderRecommendations and getOverallRecommendations never reject,
\* and a failing database lookup, a failing AI request, an answer that is no
\* JSON and a failing database write each end the call with the fixed
\* fallback recommendations.
C24_GracefulDegradation ==
  /\ [](ai.pc \in {"idle", "awaitFindOne", "awaitAI", "awaitUpdate", "done"})
  /\ [][ (\/ FindOneResponds(FALSE)
          \/ AiResponds("error")
          \/ AiResponds("badJson")
          \/ UpdateResponds(FALSE))
         => (ai'.pc = "done" /\ ai'.result = FallbackOf(ai)) ]_vars

\* a call for an order that missed both caches has ended with the fallback
\* of its three items
C24_Witness ==
  /\ ai.pc = "done"
  /\ ai.fn = "getOrderRecommendations"
  /\ ai.order.id = "o1"
  /\ ai.result.kind = "fallback"
  /\ Len(ai.result.items) = 3
  /\ ai.result.items[2].emissionImpact = "high"
  /\ ai.served.from = "none"

\* C27: a call that returns the fallback recommendations has stored nothing
\* in the in-memory cache.
C27_FallbackStoredNothing ==
  (ai.pc = "done" /\ ai.result = FallbackOf(ai)) => ~ ai.stored

\* C30: cached overall recommendations are served only when they were stored
\* with the current order count: a memory lookup that finds an entry of
\* another order count deletes it and returns null, and a record served from
\* the database has the current order count.
C30_OverallOnlyForSameOrderCount ==
  /\ [](ai.fn = "getOverallRecommendations"
          /\ ai.served.from \in {"memory", "db"}
        => ai.served.entry.orderCount = ai.orderCount)
  /\ [][ \A u \in {"u1"}, n \in 1..MaxOrderCount :
           CallGetOverallRecommendations(u, n) =>
           LET m == memoryCache.userOverallRecommendations
           IN  (u \in DOMAIN m /\ m[u].orderCount # n) =>
                 /\ u \notin DOMAIN memoryCache'.userOverallRecommendations
                 /\ ai'.pc = "awaitFindOne" ]_vars

\* a memory lookup has found a fresh entry of another order count
C30_Witness ==
  /\ ai.fn = "getOverallRecommendations"
  /\ ai.served.from = "expired"
  /\ ai.served.at - ai.served.entry.timestamp <= CACHE_TTL
  /\ ai.served.entry.orderCount # ai.orderCount
  /\ "u1" \notin DOMAIN memoryCache.userOverallRecommendations

\* the number of entries of the errors field of a response
ErrorCount(body) == IF body.errors.t = "array" THEN Len(body.errors.v) ELSE 0

\* C28: in POST /zomato/fetch a failing order never aborts the batch: every
\* pass of the loop adds exactly one entry, either the saved order to the
\* saved list or one message to the errors list, so after i orders the two
\* lists hold i entries, and a non-empty orders array is answered with
\* success and with saved count + error count = input count.
C28_EveryOrderSavedOrReported ==
  /\ [](req.pc = "loop" =>
          Len(batch.processedOrders) + Len(batch.errors) = batch.i)
  /\ []((/\ req.route = "POST /zomato/fetch"
         /\ req.pc = "responded"
         /\ Len(batch.ordersArray) > 0)
        => /\ req.status = 200
           /\ req.body.success
           /\ Len(req.body.orders) + ErrorCount(req.body)
                = Len(batch.ordersArray))
  /\ [][ \A emissionOk \in BOOLEAN, saveOk \in BOOLEAN :
           ProcessZomatoOrder(emissionOk, saveOk) =>
             /\ req'.pc = "loop"
             /\ \/ /\ Len(batch'.processedOrders)
                        = Len(batch.processedOrders) + 1
                   /\ batch'.errors = batch.errors
                   /\ batch'.processedOrders[Len(batch'.processedOrders)]
                        \in orders'
                \/ /\ Len(batch'.errors) = Len(batch.errors) + 1
                   /\ batch'.processedOrders = batch.processedOrders
                   /\ orders' = orders ]_vars

\* a batch of several orders has been answered with one order saved and one
\* reported in the errors list
C28_Witness ==
  /\ req.route = "POST /zomato/fetch"
  /\ req.pc = "responded"
  /\ req.status = 200
  /\ Len(batch.ordersArray) >= 2
  /\ Len(req.body.orders) = 1
  /\ ErrorCount(req.body) >= 1
  /\ batch.ordersArray[1].kind # "complete"

====
